---- MODULE Spec2Model ----
(***************************************************************************)
(* Model of the static extraction engine of mcp-design-system-next: the    *)
(* slot extractors (linear text scan and template-tree walk) and the       *)
(* property/event extractor.  Texts are sequences of one-character         *)
(* strings; positions are 0-based, as in the TypeScript source.            *)
(***************************************************************************)
EXTENDS Integers, Sequences, FiniteSets, TLC

VARIABLES
  doc,        \* the single-file descriptor handed to both slot extractors
  content,    \* its text, as readFileSync returns it
  pc,         \* position of the slot extraction run
  astSlots,   \* result of the tree-walking parseSlots (slot-parser.ts)
  openIdx,    \* extractRootTemplate: openMatch.index
  openLen,    \* extractRootTemplate: openMatch[0].length
  depth,      \* extractRootTemplate: nesting depth
  pos,        \* extractRootTemplate: scan position
  template,   \* linear parseSlots: the extracted root template text
  searchPos,  \* linear parseSlots: search position
  slots,      \* linear parseSlots: result list
  seenNames,  \* linear parseSlots: names already reported
  tags,       \* linear parseSlots: [idx, tagEnd] of every tag it read
  sourceFile, \* parseComponentProps: the file's variable declarations
  phase,      \* parseComponentProps: which pass is running
  constArrays,\* parseComponentProps: captured literal-array constants
  props,      \* parseComponentProps: result list of properties
  emits,      \* parseComponentProps: result list of events
  declIdx,    \* parseComponentProps: declaration the current pass is at
  memberIdx,  \* parseComponentProps: member of that declaration, 0 outside
  componentDir, \* getSubComponents: the component directory on disk
  subPc,      \* getSubComponents: position of the run
  entryIdx,   \* getSubComponents: directory entry the loop is at
  subs,       \* getSubComponents: result list
  componentsPath, \* buildManifest: the entries of the components directory
  componentDirs,  \* buildManifest: those of them that are directories
  manPc,      \* buildManifest: position of the run
  compIdx,    \* buildManifest: component the loop is at
  cur,        \* buildManifest: props, emits, types, slots, composables and
              \* subComponentDetails of the component being assembled
  components, \* buildManifest: result list
  sharedProject,   \* props-parser.ts: the shared ts-morph project, or null
  disk,            \* content of each definition file on disk (a revision)
  projectsCreated, \* new Project(...) calls of the running process
  fileReads,       \* addSourceFileAtPath calls of the process, per path
  firstRead,       \* revision on disk at the process's first call per path
  answered,        \* the last parser call: function, path, revision used
  restarts,        \* process restarts so far
  installed,       \* index.ts: the design-system-next package on disk
  request,         \* the tools/call request handled last
  response,        \* what the handler returned or threw for it
  examined,        \* components handed to parseComponentProps by the request
  assets,          \* token-parser.ts: the token files under assetsPath/scripts
  tokenCall,       \* the extractor or get_tokens request run last
  tokenResult,     \* what it returned
  fnCall,          \* utils.ts / composable parser: the function called last
  fnResult         \* what it returned

slotVars == <<doc, content, pc, astSlots, openIdx, openLen, depth, pos,
              template, searchPos, slots, seenNames, tags>>

propVars == <<sourceFile, phase, constArrays, props, emits, declIdx,
              memberIdx>>

subVars == <<componentDir, subPc, entryIdx, subs>>

manVars == <<componentsPath, componentDirs, manPc, compIdx, cur, components>>

cacheVars == <<sharedProject, disk, projectsCreated, fileReads, firstRead,
               answered, restarts>>

serverVars == <<installed, request, response, examined>>

tokenVars == <<assets, tokenCall, tokenResult>>

fnVars == <<fnCall, fnResult>>

vars == <<slotVars, propVars, subVars, manVars, cacheVars, serverVars,
          tokenVars, fnVars>>

notSlotVars == <<propVars, subVars, manVars, cacheVars, serverVars,
  tokenVars, fnVars>>

notPropVars == <<slotVars, subVars, manVars, cacheVars, serverVars,
  tokenVars, fnVars>>

notSubVars == <<slotVars, propVars, manVars, cacheVars, serverVars,
  tokenVars, fnVars>>

notManVars == <<slotVars, propVars, subVars, cacheVars, serverVars,
  tokenVars, fnVars>>

notServerVars == <<slotVars, propVars, subVars, manVars, cacheVars,
  tokenVars, fnVars>>

notTokenVars == <<slotVars, propVars, subVars, manVars, cacheVars, serverVars,
  fnVars>>

notFnVars == <<slotVars, propVars, subVars, manVars, cacheVars, serverVars,
  tokenVars>>

notCacheVars == <<slotVars, propVars, subVars, manVars, serverVars,
  tokenVars, fnVars>>

\* the slot extractors are not running
SlotsIdle ==
  /\ doc = [hasTemplate |-> FALSE, closed |-> TRUE, nest |-> 0, items |-> <<>>]
  /\ content = <<>>
  /\ pc = "idle"
  /\ astSlots = <<>>
  /\ openIdx = -1
  /\ openLen = 0
  /\ depth = 0
  /\ pos = 0
  /\ template = <<>>
  /\ searchPos = 0
  /\ slots = <<>>
  /\ seenNames = {}
  /\ tags = <<>>

\* parseComponentProps is not running
PropsIdle ==
  /\ sourceFile = <<>>
  /\ phase = "idle"
  /\ constArrays = <<>>
  /\ props = <<>>
  /\ emits = <<>>
  /\ declIdx = 0
  /\ memberIdx = 0

\* getSubComponents is not running
SubIdle ==
  /\ componentDir = <<>>
  /\ subPc = "idle"
  /\ entryIdx = 0
  /\ subs = <<>>

\* buildManifest is not running
ManIdle ==
  /\ componentsPath = <<>>
  /\ componentDirs = <<>>
  /\ manPc = "idle"
  /\ compIdx = 0
  /\ cur = <<>>
  /\ components = <<>>

\* no parser call is made through the shared project
CacheIdle ==
  /\ sharedProject = "null"
  /\ disk = <<>>
  /\ projectsCreated = 0
  /\ fileReads = <<>>
  /\ firstRead = <<>>
  /\ answered = "none"
  /\ restarts = 0

\* no tools/call request is handled
ServerIdle ==
  /\ installed = "none"
  /\ request = "none"
  /\ response = "none"
  /\ examined = <<>>

\* no token extractor runs
TokensIdle ==
  /\ assets = "none"
  /\ tokenCall = "none"
  /\ tokenResult = "none"

\* no utility function is called
FnIdle ==
  /\ fnCall = "none"
  /\ fnResult = "none"

----------------------------------------------------------------------------
(* Bounds of the explored input space *)

MaxMarkers == 2
MaxDepth == 2
MaxProps == 2
MaxEntries == 3
MaxComponents == 2
MaxEdits == 2
MaxRestarts == 1
MaxInstalled == 2
MaxLen == 3
MaxExampleProps == 4
MaxExampleSlots == 3

----------------------------------------------------------------------------
(* Text primitives *)

Min(S) == CHOOSE x \in S : \A y \in S : x <= y

HasAt(s, i) == i >= 0 /\ i < Len(s)

At(s, i) == s[i + 1]

Substring(s, a, b) == SubSeq(s, a + 1, b)

StartsAt(s, i, lit) ==
  /\ i >= 0
  /\ i + Len(lit) <= Len(s)
  /\ \A k \in 1..Len(lit) : s[i + k] = lit[k]

\* the least position from `from` on where Hit holds, -1 when there is none
FirstFrom(s, from, Hit(_, _)) ==
  LET c == {i \in from..(Len(s) - 1) : Hit(s, i)}
  IN IF c = {} THEN -1 ELSE Min(c)

IndexOf(s, lit, from) ==
  LET LitAt(t, i) == StartsAt(t, i, lit)
  IN FirstFrom(s, from, LitAt)

Includes(s, lit) == IndexOf(s, lit, 0) # -1

RECURSIVE Concat(_)
Concat(ss) == IF ss = <<>> THEN <<>> ELSE Head(ss) \o Concat(Tail(ss))

Space == {" ", "\n", "\t"}

Quote == {"\"", "'"}

WordChar ==
  {"a", "b", "c", "d", "e", "f", "g", "h", "i", "j", "k", "l", "m",
   "n", "o", "p", "q", "r", "s", "t", "u", "v", "w", "x", "y", "z",
   "A", "B", "C", "D", "E", "F", "G", "H", "I", "J", "K", "L", "M",
   "N", "O", "P", "Q", "R", "S", "T", "U", "V", "W", "X", "Y", "Z",
   "0", "1", "2", "3", "4", "5", "6", "7", "8", "9", "_"}

\* length of the longest run of characters of class cls starting at i
RECURSIVE RunLen(_, _, _)
RunLen(s, i, cls) ==
  IF HasAt(s, i) /\ At(s, i) \in cls THEN 1 + RunLen(s, i + 1, cls) ELSE 0

\* length of the longest run of characters outside class cls starting at i
RECURSIVE RunLenNot(_, _, _)
RunLenNot(s, i, cls) ==
  IF HasAt(s, i) /\ At(s, i) \notin cls THEN 1 + RunLenNot(s, i + 1, cls) ELSE 0

----------------------------------------------------------------------------
(* The template tree @vue/compiler-sfc yields (TemplateNode) and the text  *)
(* it is parsed from                                                       *)

SlotTag == <<"s", "l", "o", "t">>
TemplateTag == <<"t", "e", "m", "p", "l", "a", "t", "e">>
NameLit == <<"n", "a", "m", "e">>
ClassLit == <<"c", "l", "a", "s", "s">>
BindLit == <<"b", "i", "n", "d">>

StaticAttr(n, v, q) ==
  [type |-> 6, name |-> n, hasValue |-> TRUE, value |-> v,
   hasArg |-> FALSE, arg |-> <<>>, hasExp |-> FALSE, exp |-> <<>>,
   short |-> FALSE, quote |-> q]

BindAttr(a, e, sh, q) ==
  [type |-> 7, name |-> BindLit, hasValue |-> FALSE, value |-> <<>>,
   hasArg |-> TRUE, arg |-> a, hasExp |-> TRUE, exp |-> e,
   short |-> sh, quote |-> q]

DirectiveAttr(n, e) ==
  [type |-> 7, name |-> n, hasValue |-> FALSE, value |-> <<>>,
   hasArg |-> FALSE, arg |-> <<>>, hasExp |-> TRUE, exp |-> e,
   short |-> FALSE, quote |-> "\""]

Element(t, ps, cs, sc) ==
  [tag |-> t, props |-> ps, children |-> cs, selfClosing |-> sc]

RenderProp(p) ==
  IF p.type = 6
  THEN p.name \o (IF p.hasValue
                  THEN <<"=", p.quote>> \o p.value \o <<p.quote>>
                  ELSE <<>>)
  ELSE IF p.name = BindLit
  THEN (IF p.short THEN <<":">> ELSE <<"v", "-", "b", "i", "n", "d", ":">>)
       \o p.arg \o <<"=", p.quote>> \o p.exp \o <<p.quote>>
  ELSE <<"v", "-">> \o p.name \o <<"=", p.quote>> \o p.exp \o <<p.quote>>

RenderProps(ps) == Concat([i \in 1..Len(ps) |-> <<" ">> \o RenderProp(ps[i])])

RECURSIVE RenderNode(_)
RenderNode(n) ==
  <<"<">> \o n.tag \o RenderProps(n.props)
  \o (IF n.selfClosing
      THEN <<"/", ">">>
      ELSE <<">">>
           \o Concat([i \in 1..Len(n.children) |-> RenderNode(n.children[i])])
           \o <<"<", "/">> \o n.tag \o <<">">>)

RenderChildren(n) ==
  Concat([i \in 1..Len(n.children) |-> RenderNode(n.children[i])])

\* the <slot> markers and other elements the descriptors are built from
Markers ==
  { Element(SlotTag, <<>>, <<>>, TRUE),
    Element(SlotTag, <<StaticAttr(NameLit, <<"a">>, "\""),
                       BindAttr(<<"p">>, <<"v">>, TRUE, "\""),
                       BindAttr(<<"q">>, <<"w">>, FALSE, "\"")>>, <<>>, TRUE),
    Element(SlotTag, <<BindAttr(NameLit, <<"x">>, TRUE, "\""),
                       BindAttr(ClassLit, <<"c">>, TRUE, "\"")>>, <<>>, TRUE),
    Element(SlotTag, <<BindAttr(NameLit, <<"x">>, TRUE, "\""),
                       StaticAttr(NameLit, <<"a">>, "'"),
                       BindAttr(<<"q">>, <<"w">>, TRUE, "\"")>>, <<>>, FALSE),
    Element(SlotTag, <<BindAttr(<<"t">>, <<"f", "(", "\"", "<", "s", "l", "o", "t", ">", "\"", ")">>, TRUE, "'"),
                       BindAttr(<<"p">>, <<"i", ">", "0">>, TRUE, "\""),
                       StaticAttr(NameLit, <<"b">>, "\"")>>, <<>>, TRUE),
    Element(SlotTag, <<BindAttr(<<"r", "o", "w", "-", "d", "a", "t", "a">>, <<"v">>, TRUE, "\"")>>, <<>>, TRUE),
    Element(<<"s", "l", "o", "t", "t", "e", "d">>, <<>>, <<>>, TRUE) }

InnerTemplate(cs) ==
  Element(TemplateTag, <<DirectiveAttr(<<"i", "f">>, <<"c">>)>>, cs, FALSE)

RECURSIVE Wrap(_, _)
Wrap(n, d) == IF d = 0 THEN n ELSE InnerTemplate(<<Wrap(n, d - 1)>>)

SeqUpTo(S, n) == UNION {[1..k -> S] : k \in 0..n}

\* nest: how many inner <template> pairs enclose the first element, each
\* later element being enclosed by one pair fewer; closed: whether the root
\* </template> is written
Docs ==
  {d \in [hasTemplate : BOOLEAN, closed : BOOLEAN, nest : 0..MaxDepth,
          items : SeqUpTo(Markers, MaxMarkers)] :
     /\ (~d.closed => Len(d.items) <= 1)
     /\ (~d.hasTemplate => d.closed /\ d.nest = 0 /\ d.items = <<>>)}

NestOf(d, i) == IF d.nest - (i - 1) > 0 THEN d.nest - (i - 1) ELSE 0

RootNode(d) ==
  Element(TemplateTag, <<>>,
          [i \in 1..Len(d.items) |-> Wrap(d.items[i], NestOf(d, i))],
          FALSE)

RootOpener == <<"<", "t", "e", "m", "p", "l", "a", "t", "e", ">">>

ContentOf(d) ==
  IF ~d.hasTemplate THEN <<"<", "s", "c", "r", "i", "p", "t", " ", "s", "e", "t", "u", "p", ">", "<", "/", "s", "c", "r", "i", "p", "t", ">", "\n">>
  ELSE IF d.closed THEN RenderNode(RootNode(d)) \o <<"\n", "<", "s", "c", "r", "i", "p", "t", " ", "s", "e", "t", "u", "p", ">", "<", "/", "s", "c", "r", "i", "p", "t", ">", "\n">>
  ELSE RootOpener \o RenderChildren(RootNode(d))

WellFormed(d) == d.closed

----------------------------------------------------------------------------
(* slot-parser.ts: recursive walk of the template tree *)

SlotDef(n, sp) ==
  [name |-> n, scoped |-> Len(sp) > 0,
   hasScopeProps |-> Len(sp) > 0, scopeProps |-> sp]

DefaultName == <<"d", "e", "f", "a", "u", "l", "t">>

Bracketed(e) == <<"[">> \o e \o <<"]">>

\* props.find(p => pred(p)): index of the first match, 0 when none
FirstIndex(ps, Pred(_)) ==
  LET c == {i \in 1..Len(ps) : Pred(ps[i])}
  IN IF c = {} THEN 0 ELSE Min(c)

IsStaticName(p) == p.type = 6 /\ p.name = NameLit

IsDynamicName(p) ==
  p.type = 7 /\ p.name = BindLit /\ p.hasArg /\ p.arg = NameLit

AstSlotName(ps) ==
  LET s == FirstIndex(ps, IsStaticName)
      d == FirstIndex(ps, IsDynamicName)
  IN IF s # 0 /\ ps[s].hasValue THEN ps[s].value
     ELSE IF d # 0 /\ ps[d].hasExp THEN Bracketed(ps[d].exp)
     ELSE DefaultName

IsScopeBinding(p) ==
  /\ p.type = 7
  /\ p.name = BindLit
  /\ p.hasArg
  /\ p.arg # <<>>
  /\ p.arg # NameLit
  /\ p.arg # ClassLit

AstScopeProps(ps) ==
  LET keep == SelectSeq(ps, IsScopeBinding)
  IN [i \in 1..Len(keep) |-> keep[i].arg]

RECURSIVE FindSlots(_, _)
FindSlots(node, acc) ==
  LET name == AstSlotName(node.props)
      here ==
        IF node.tag = SlotTag /\ name \notin acc.seen
        THEN [seen |-> acc.seen \cup {name},
              results |-> Append(acc.results,
                                 SlotDef(name, AstScopeProps(node.props)))]
        ELSE acc
      Walk[i \in 0..Len(node.children)] ==
        IF i = 0 THEN here ELSE FindSlots(node.children[i], Walk[i - 1])
  IN Walk[Len(node.children)]

AstParseSlots(d) ==
  IF ~d.hasTemplate THEN <<>>
  ELSE FindSlots(RootNode(d), [seen |-> {}, results |-> <<>>]).results

----------------------------------------------------------------------------
(* props-parser.ts: extractRootTemplate *)

TemplateOpenLit == <<"<", "t", "e", "m", "p", "l", "a", "t", "e">>
TemplateCloseLit == <<"<", "/", "t", "e", "m", "p", "l", "a", "t", "e">>

IsGt(s, i) == At(s, i) = ">"

\* end of [^>]* from i: the first '>' at or after i, or the end of the text
FirstGt(s, i) ==
  LET j == FirstFrom(s, i, IsGt) IN IF j = -1 THEN Len(s) ELSE j

\* /<template\b[^>]*>/ matches at i
RootOpenAt(s, i) ==
  /\ StartsAt(s, i, TemplateOpenLit)
  /\ HasAt(s, i + Len(TemplateOpenLit))
  /\ At(s, i + Len(TemplateOpenLit)) \notin WordChar
  /\ HasAt(s, FirstGt(s, i + Len(TemplateOpenLit)))

RootOpenIndex(s) == FirstFrom(s, 0, RootOpenAt)

RootOpenLen(s, i) == FirstGt(s, i + Len(TemplateOpenLit)) - i + 1

\* /<template[\s>]/g with lastIndex = from
OpenTagAt(s, i) ==
  /\ StartsAt(s, i, TemplateOpenLit)
  /\ HasAt(s, i + Len(TemplateOpenLit))
  /\ At(s, i + Len(TemplateOpenLit)) \in Space \cup {">"}

NextOpen(s, from) == FirstFrom(s, from, OpenTagAt)

OpenTagLen == Len(TemplateOpenLit) + 1

\* /<\/template\s*>/g with lastIndex = from
CloseTagEnd(s, i) ==
  i + Len(TemplateCloseLit) + RunLen(s, i + Len(TemplateCloseLit), Space)

CloseTagAt(s, i) ==
  /\ StartsAt(s, i, TemplateCloseLit)
  /\ HasAt(s, CloseTagEnd(s, i))
  /\ At(s, CloseTagEnd(s, i)) = ">"

\* closeTag.lastIndex left at 0
NextCloseFromStart(s, from) == FirstFrom(s, 0, CloseTagAt)

\* closeTag.lastIndex = pos; closeTag.exec(content)
NextClose(s, from) == FirstFrom(s, from, CloseTagAt)

CloseTagLen(s, i) == CloseTagEnd(s, i) - i + 1

----------------------------------------------------------------------------
(* props-parser.ts: the linear parseSlots *)

SlotOpenLit == <<"<", "s", "l", "o", "t">>

AfterSlotOk(t, idx) ==
  \/ ~HasAt(t, idx + 5)
  \/ At(t, idx + 5) \in {" ", "\n", "\t", "/", ">"}

TagEndIgnoringQuotes(t, i, inQuote) ==
  LET IsGtAt(s, j) == At(s, j) = ">"
      c == {j \in i..(Len(t) - 1) : IsGtAt(t, j)}
  IN IF c = {} THEN Len(t) ELSE Min(c)

\* the inner while loop: the first '>' outside quotes, or template.length
RECURSIVE TagEnd(_, _, _)
TagEnd(t, i, inQuote) ==
  IF ~HasAt(t, i) THEN i
  ELSE IF inQuote # ""
       THEN TagEnd(t, i + 1, IF At(t, i) = inQuote THEN "" ELSE inQuote)
  ELSE IF At(t, i) \in Quote THEN TagEnd(t, i + 1, At(t, i))
  ELSE IF At(t, i) = ">" THEN i
  ELSE TagEnd(t, i + 1, "")

\* (?:^|\s)<lit>["']([^"']+)["'] : where the attribute literal starts
AttrMatchAt(tc, p, lit) ==
  LET s == IF p = 0 /\ StartsAt(tc, 0, lit) THEN 0 ELSE p + 1
      v == s + Len(lit) + 1
      n == RunLenNot(tc, v, Quote)
  IN /\ (s = 0 \/ (HasAt(tc, p) /\ At(tc, p) \in Space))
     /\ StartsAt(tc, s, lit)
     /\ HasAt(tc, v - 1) /\ At(tc, v - 1) \in Quote
     /\ n > 0
     /\ HasAt(tc, v + n) /\ At(tc, v + n) \in Quote

AttrMatchValue(tc, p, lit) ==
  LET s == IF p = 0 /\ StartsAt(tc, 0, lit) THEN 0 ELSE p + 1
      v == s + Len(lit) + 1
  IN Substring(tc, v, v + RunLenNot(tc, v, Quote))

AttrMatch(tc, lit) ==
  LET LitAt(t, p) == AttrMatchAt(t, p, lit)
  IN FirstFrom(tc, 0, LitAt)

NameEqLit == <<"n", "a", "m", "e", "=">>
DynNameEqLit == <<":", "n", "a", "m", "e", "=">>

LinearSlotNameDynamicFirst(tc) ==
  LET nameMatch == AttrMatch(tc, NameEqLit)
      dynamicNameMatch == AttrMatch(tc, DynNameEqLit)
  IN IF dynamicNameMatch # -1
     THEN Bracketed(AttrMatchValue(tc, dynamicNameMatch, DynNameEqLit))
     ELSE IF nameMatch # -1 THEN AttrMatchValue(tc, nameMatch, NameEqLit)
     ELSE DefaultName

LinearSlotName(tc) ==
  LET nameMatch == AttrMatch(tc, NameEqLit)
      dynamicNameMatch == AttrMatch(tc, DynNameEqLit)
  IN IF nameMatch # -1 THEN AttrMatchValue(tc, nameMatch, NameEqLit)
     ELSE IF dynamicNameMatch # -1
     THEN Bracketed(AttrMatchValue(tc, dynamicNameMatch, DynNameEqLit))
     ELSE DefaultName

ColonLit == <<":">>
VBindLit == <<"v", "-", "b", "i", "n", "d", ":">>

\* /(?:^|\s)(?::|v-bind:)(\w+)/ matches starting at p; the prefix it takes
BindPrefixAt(tc, s) ==
  IF StartsAt(tc, s, ColonLit) THEN ColonLit
  ELSE IF StartsAt(tc, s, VBindLit) THEN VBindLit
  ELSE <<>>

BindStart(tc, p) ==
  IF p = 0 /\ BindPrefixAt(tc, 0) # <<>> THEN 0 ELSE p + 1

BindMatchAt(tc, p) ==
  LET s == BindStart(tc, p)
      pre == BindPrefixAt(tc, s)
  IN /\ (s = 0 \/ (HasAt(tc, p) /\ At(tc, p) \in Space))
     /\ pre # <<>>
     /\ RunLen(tc, s + Len(pre), WordChar) > 0

\* the exec loop of bindRegex: every match from lastIndex on, in order
RECURSIVE BindMatches(_, _)
BindMatches(tc, lastIndex) ==
  LET p == FirstFrom(tc, lastIndex, BindMatchAt)
      s == BindStart(tc, p)
      w == s + Len(BindPrefixAt(tc, s))
      n == RunLen(tc, w, WordChar)
  IN IF p = -1 THEN <<>>
     ELSE <<Substring(tc, w, w + n)>> \o BindMatches(tc, w + n)

\* seenNames.has(name)
AlreadySeenNever(seen, name) == FALSE

AlreadySeen(seen, name) == name \in seen

NotNameOrClass(propName) == propName # NameLit /\ propName # ClassLit

LinearScopeProps(tc) == SelectSeq(BindMatches(tc, 0), NotNameOrClass)

----------------------------------------------------------------------------
(* The two slot extractors run on one descriptor *)

InitSlots ==
  /\ doc \in Docs
  /\ content = ContentOf(doc)
  /\ pc = "ast"
  /\ astSlots = <<>>
  /\ openIdx = -1
  /\ openLen = 0
  /\ depth = 0
  /\ pos = 0
  /\ template = <<>>
  /\ searchPos = 0
  /\ slots = <<>>
  /\ seenNames = {}
  /\ tags = <<>>
  /\ sourceFile = <<>>
  /\ phase = "idle"
  /\ constArrays = <<>>
  /\ props = <<>>
  /\ emits = <<>>
  /\ declIdx = 0
  /\ memberIdx = 0
  /\ SubIdle
  /\ ManIdle
  /\ CacheIdle
  /\ ServerIdle
  /\ TokensIdle
  /\ FnIdle

\* slot-parser.ts parseSlots: descriptor.template?.ast, then findSlots
AstParse ==
  /\ pc = "ast"
  /\ astSlots' = AstParseSlots(doc)
  /\ pc' = "extract"
  /\ UNCHANGED <<doc, content, openIdx, openLen, depth, pos, template,
                 searchPos, slots, seenNames, tags>>
  /\ UNCHANGED notSlotVars

\* parseSlots returns [] when extractRootTemplate returned ''
ReturnTemplate(t) ==
  /\ template' = t
  /\ pc' = IF t = <<>> THEN "done" ELSE "scan"
  /\ UNCHANGED <<doc, content, astSlots, searchPos, slots, seenNames, tags>>

ExtractNoOpen ==
  /\ pc = "extract"
  /\ RootOpenIndex(content) = -1
  /\ ReturnTemplate(<<>>)
  /\ UNCHANGED <<openIdx, openLen, depth, pos>>
  /\ UNCHANGED notSlotVars

ExtractOpen ==
  /\ pc = "extract"
  /\ RootOpenIndex(content) # -1
  /\ openIdx' = RootOpenIndex(content)
  /\ openLen' = RootOpenLen(content, openIdx')
  /\ depth' = 1
  /\ pos' = openIdx' + openLen'
  /\ pc' = "loop"
  /\ UNCHANGED <<doc, content, astSlots, template, searchPos, slots,
                 seenNames, tags>>
  /\ UNCHANGED notSlotVars

InLoop == pc = "loop" /\ depth > 0 /\ pos < Len(content)

ExtractLoopEnd ==
  /\ pc = "loop"
  /\ ~(depth > 0 /\ pos < Len(content))
  /\ ReturnTemplate(<<>>)
  /\ UNCHANGED <<openIdx, openLen, depth, pos>>
  /\ UNCHANGED notSlotVars

ExtractNoClose ==
  /\ InLoop
  /\ NextClose(content, pos) = -1
  /\ ReturnTemplate(<<>>)
  /\ UNCHANGED <<openIdx, openLen, depth, pos>>
  /\ UNCHANGED notSlotVars

OpenNeverFirst(nextOpen, nextClose) == FALSE

\* nextOpen && nextOpen.index < nextClose.index
OpenComesFirst(nextOpen, nextClose) == nextOpen # -1 /\ nextOpen < nextClose

ExtractNested ==
  /\ InLoop
  /\ LET nextOpen == NextOpen(content, pos)
         nextClose == NextClose(content, pos)
     IN /\ nextClose # -1
        /\ OpenComesFirst(nextOpen, nextClose)
        /\ depth' = depth + 1
        /\ pos' = nextOpen + OpenTagLen
  /\ UNCHANGED <<doc, content, pc, astSlots, openIdx, openLen, template,
                 searchPos, slots, seenNames, tags>>
  /\ UNCHANGED notSlotVars

ExtractCloseInner ==
  /\ InLoop
  /\ LET nextOpen == NextOpen(content, pos)
         nextClose == NextClose(content, pos)
     IN /\ nextClose # -1
        /\ ~OpenComesFirst(nextOpen, nextClose)
        /\ depth - 1 # 0
        /\ depth' = depth - 1
        /\ pos' = nextClose + CloseTagLen(content, nextClose)
  /\ UNCHANGED <<doc, content, pc, astSlots, openIdx, openLen, template,
                 searchPos, slots, seenNames, tags>>
  /\ UNCHANGED notSlotVars

ExtractReturn ==
  /\ InLoop
  /\ LET nextOpen == NextOpen(content, pos)
         nextClose == NextClose(content, pos)
     IN /\ nextClose # -1
        /\ ~OpenComesFirst(nextOpen, nextClose)
        /\ depth - 1 = 0
        /\ depth' = 0
        /\ ReturnTemplate(Substring(content, openIdx + openLen, nextClose))
  /\ UNCHANGED <<openIdx, openLen, pos>>
  /\ UNCHANGED notSlotVars

Scanning == pc = "scan" /\ searchPos < Len(template)

\* template.indexOf('<slot', searchPos)
SlotIdx == IndexOf(template, SlotOpenLit, searchPos)

ScanEnd ==
  /\ pc = "scan"
  /\ ~(searchPos < Len(template))
  /\ pc' = "done"
  /\ UNCHANGED <<doc, content, astSlots, openIdx, openLen, depth, pos,
                 template, searchPos, slots, seenNames, tags>>
  /\ UNCHANGED notSlotVars

ScanNoSlot ==
  /\ Scanning
  /\ SlotIdx = -1
  /\ pc' = "done"
  /\ UNCHANGED <<doc, content, astSlots, openIdx, openLen, depth, pos,
                 template, searchPos, slots, seenNames, tags>>
  /\ UNCHANGED notSlotVars

ScanNotSlotTag ==
  /\ Scanning
  /\ LET idx == SlotIdx
     IN /\ idx # -1
        /\ ~AfterSlotOk(template, idx)
        /\ searchPos' = idx + 5
  /\ UNCHANGED <<doc, content, pc, astSlots, openIdx, openLen, depth, pos,
                 template, slots, seenNames, tags>>
  /\ UNCHANGED notSlotVars

\* template.substring(idx + 5, tagEnd)
TagContent(idx, tagEnd) == Substring(template, idx + 5, tagEnd)

ScanDuplicate ==
  /\ Scanning
  /\ LET idx == SlotIdx
         tagEnd == TagEnd(template, idx + 5, "")
         name == LinearSlotName(TagContent(idx, tagEnd))
     IN /\ idx # -1
        /\ AfterSlotOk(template, idx)
        /\ searchPos' = tagEnd + 1
        /\ tags' = Append(tags, [idx |-> idx, tagEnd |-> tagEnd])
        /\ AlreadySeen(seenNames, name)
  /\ UNCHANGED <<doc, content, pc, astSlots, openIdx, openLen, depth, pos,
                 template, slots, seenNames>>
  /\ UNCHANGED notSlotVars

ScanPush ==
  /\ Scanning
  /\ LET idx == SlotIdx
         tagEnd == TagEnd(template, idx + 5, "")
         tagContent == TagContent(idx, tagEnd)
         name == LinearSlotName(tagContent)
     IN /\ idx # -1
        /\ AfterSlotOk(template, idx)
        /\ searchPos' = tagEnd + 1
        /\ tags' = Append(tags, [idx |-> idx, tagEnd |-> tagEnd])
        /\ ~AlreadySeen(seenNames, name)
        /\ seenNames' = seenNames \cup {name}
        /\ slots' = Append(slots, SlotDef(name, LinearScopeProps(tagContent)))
  /\ UNCHANGED <<doc, content, pc, astSlots, openIdx, openLen, depth, pos,
                 template>>
  /\ UNCHANGED notSlotVars

NextSlots ==
  \/ AstParse
  \/ ExtractNoOpen
  \/ ExtractOpen
  \/ ExtractLoopEnd
  \/ ExtractNoClose
  \/ ExtractNested
  \/ ExtractCloseInner
  \/ ExtractReturn
  \/ ScanEnd
  \/ ScanNoSlot
  \/ ScanNotSlotTag
  \/ ScanDuplicate
  \/ ScanPush

SpecSlots == InitSlots /\ [][NextSlots]_vars

----------------------------------------------------------------------------
(* The syntax tree ts-morph yields for a definition file                   *)

\* an object-literal member `name: <initializer>`
PropertyAssignment(n, ik, t, ms) ==
  [kind |-> "PropertyAssignment", name |-> n, initKind |-> ik, text |-> t,
   members |-> ms]

\* an object-literal member `name() { ... }`
MethodDeclaration(n) ==
  [kind |-> "MethodDeclaration", name |-> n, initKind |-> "None",
   text |-> <<>>, members |-> <<>>]

\* a member of a property body, `name: <expression text>`
Field(n, t) == PropertyAssignment(n, "Expression", t, <<>>)

\* a member of a PropTypes object, `name: { ...fields }`
PropEntry(n, fields) ==
  PropertyAssignment(n, "ObjectLiteralExpression", <<>>, fields)

StringLiteral(t) == [kind |-> "StringLiteral", text |-> t]

NumericLiteral(t) == [kind |-> "NumericLiteral", text |-> t]

\* `const name = [elems] as const`
ConstArrayDecl(n, es) ==
  [name |-> n, exported |-> TRUE, initKind |-> "AsExpression",
   innerKind |-> "ArrayLiteralExpression", elems |-> es, members |-> <<>>]

\* `const name = { members }`
ObjectDecl(n, ms) ==
  [name |-> n, exported |-> TRUE, initKind |-> "ObjectLiteralExpression",
   innerKind |-> "None", elems |-> <<>>, members |-> ms]

\* `const name = someCall(...)`
CallDecl(n) ==
  [name |-> n, exported |-> TRUE, initKind |-> "CallExpression",
   innerKind |-> "None", elems |-> <<>>, members |-> <<>>]

\* the same declaration written without `export`
LocalDecl(decl) == [decl EXCEPT !.exported = FALSE]

TypeLit == <<"t", "y", "p", "e">>
ValidatorLit == <<"v", "a", "l", "i", "d", "a", "t", "o", "r">>
UnknownLit == <<"u", "n", "k", "n", "o", "w", "n">>
StringTag == <<"s", "t", "r", "i", "n", "g">>
TypeofLit == <<"t", "y", "p", "e", "o", "f">>
PropTypeOpenLit == <<"P", "r", "o", "p", "T", "y", "p", "e", "<">>
IncludesLit == <<".", "i", "n", "c", "l", "u", "d", "e", "s">>
PropTypesSuffix == <<"P", "r", "o", "p", "T", "y", "p", "e", "s">>
EmitTypesSuffix == <<"E", "m", "i", "t", "T", "y", "p", "e", "s">>
EmitTypesSuffixLower == <<"e", "m", "i", "t", "T", "y", "p", "e", "s">>

EndsWith(s, lit) == Len(s) >= Len(lit) /\ StartsAt(s, Len(s) - Len(lit), lit)

NotQuote(c) == c \notin Quote

\* text.replace(/['"]/g, '')
StripQuotes(t) == SelectSeq(t, NotQuote)

IsStringLiteral(e) == e.kind = "StringLiteral"

\* the values pushed for the StringLiteral children of an array literal
ElementValues(es) ==
  LET strs == SelectSeq(es, IsStringLiteral)
  IN [i \in 1..Len(strs) |-> StripQuotes(strs[i].text)]

KeepsAllArrays(values) == TRUE

\* if (values.length > 0) result[decl.getName()] = values
IsStored(values) == Len(values) > 0

\* result[name] = values
Store(result, n, values) ==
  [k \in DOMAIN result \cup {n} |-> IF k = n THEN values ELSE result[k]]

IsConstArray(decl) ==
  /\ decl.initKind = "AsExpression"
  /\ decl.innerKind = "ArrayLiteralExpression"

RECURSIVE ExtractFrom(_, _, _)
ExtractFrom(decls, i, result) ==
  IF i > Len(decls) THEN result
  ELSE LET decl == decls[i]
           values == ElementValues(decl.elems)
       IN IF IsConstArray(decl) /\ IsStored(values)
          THEN ExtractFrom(decls, i + 1, Store(result, decl.name, values))
          ELSE ExtractFrom(decls, i + 1, result)

ExtractConstArrays(decls) == ExtractFrom(decls, 1, <<>>)

\* constArrays[name] is truthy
Captured(arrays, n) == n \in DOMAIN arrays

\* index of the member obj.getProperty(n) returns, 0 when undefined
GetProperty(ms, n) ==
  LET c == {i \in 1..Len(ms) : ms[i].name = n}
  IN IF c = {} THEN 0 ELSE Min(c)

NoMatch == [found |-> FALSE, group |-> <<>>]

Match(g) == [found |-> TRUE, group |-> g]

\* /PropType<([^>]+)>/ matches at i
CastAt(t, i) ==
  /\ StartsAt(t, i, PropTypeOpenLit)
  /\ RunLenNot(t, i + 9, {">"}) >= 1
  /\ HasAt(t, i + 9 + RunLenNot(t, i + 9, {">"}))

\* text.match(/PropType<([^>]+)>/)
CastMatch(t) ==
  LET i == FirstFrom(t, 0, CastAt)
  IN IF i = -1 THEN NoMatch
     ELSE Match(Substring(t, i + 9, i + 9 + RunLenNot(t, i + 9, {">"})))

\* /typeof\s+(\w+)/ matches at i
TypeofAt(t, i) ==
  /\ StartsAt(t, i, TypeofLit)
  /\ RunLen(t, i + 6, Space) >= 1
  /\ RunLen(t, i + 6 + RunLen(t, i + 6, Space), WordChar) >= 1

\* typeText.match(/typeof\s+(\w+)/)
TypeofMatch(t) ==
  LET i == FirstFrom(t, 0, TypeofAt)
      w == i + 6 + RunLen(t, i + 6, Space)
  IN IF i = -1 THEN NoMatch
     ELSE Match(Substring(t, w, w + RunLen(t, w, WordChar)))

\* /(\w+)\.includes/ matches at i
IncludesAt(t, i) ==
  /\ At(t, i) \in WordChar
  /\ StartsAt(t, i + RunLen(t, i, WordChar), IncludesLit)

\* validator.match(/(\w+)\.includes/)
ValArrayMatch(t) ==
  LET i == FirstFrom(t, 0, IncludesAt)
  IN IF i = -1 THEN NoMatch
     ELSE Match(Substring(t, i, i + RunLen(t, i, WordChar)))

SimpleTypesLower ==
  (<<"S", "t", "r", "i", "n", "g">> :> <<"s", "t", "r", "i", "n", "g">>) @@ (<<"B", "o", "o", "l", "e", "a", "n">> :> <<"b", "o", "o", "l", "e", "a", "n">>) @@
  (<<"N", "u", "m", "b", "e", "r">> :> <<"n", "u", "m", "b", "e", "r">>) @@ (<<"A", "r", "r", "a", "y">> :> <<"a", "r", "r", "a", "y">>) @@
  (<<"O", "b", "j", "e", "c", "t">> :> <<"o", "b", "j", "e", "c", "t">>) @@ (<<"F", "u", "n", "c", "t", "i", "o", "n">> :> <<"f", "u", "n", "c", "t", "i", "o", "n">>)

\* resolveType: simpleTypes
SimpleTypes ==
  (<<"S", "t", "r", "i", "n", "g">> :> <<"s", "t", "r", "i", "n", "g">>) @@ (<<"B", "o", "o", "l", "e", "a", "n">> :> <<"b", "o", "o", "l", "e", "a", "n">>) @@
  (<<"N", "u", "m", "b", "e", "r">> :> <<"n", "u", "m", "b", "e", "r">>) @@ (<<"A", "r", "r", "a", "y">> :> <<"A", "r", "r", "a", "y">>) @@
  (<<"O", "b", "j", "e", "c", "t">> :> <<"O", "b", "j", "e", "c", "t">>) @@ (<<"F", "u", "n", "c", "t", "i", "o", "n">> :> <<"F", "u", "n", "c", "t", "i", "o", "n">>)

ResolveType(body) ==
  LET i == GetProperty(body, TypeLit)
  IN IF i = 0 \/ body[i].kind # "PropertyAssignment" THEN UnknownLit
     ELSE LET text == body[i].text
              castMatch == CastMatch(text)
          IN IF castMatch.found THEN castMatch.group
             ELSE IF text \in DOMAIN SimpleTypes THEN SimpleTypes[text]
             ELSE text

ResolveValidator(body) ==
  LET i == GetProperty(body, ValidatorLit)
  IN IF i = 0 \/ body[i].kind # "PropertyAssignment" THEN NoMatch
     ELSE Match(body[i].text)

\* (propBody.getProperty('type') as PropertyAssignment)?.getInitializer():
\* the member found is not a PropertyAssignment and has no getInitializer
TypeTextThrows(body) ==
  LET i == GetProperty(body, TypeLit)
  IN i # 0 /\ body[i].kind = "MethodDeclaration"

TypeText(body) ==
  LET i == GetProperty(body, TypeLit)
  IN IF i = 0 THEN <<>> ELSE body[i].text

PropDefinition(n, t, validator, hasValues, values) ==
  [name |-> n, type |-> t, hasValidator |-> validator.found,
   validator |-> validator.group, hasValidValues |-> hasValues,
   validValues |-> values]

\* the propDef pushed for one member of a PropTypes object
BuildProp(prop, arrays) ==
  LET propBody == prop.members
      resolved == ResolveType(propBody)
      validator == ResolveValidator(propBody)
      typeofMatch == TypeofMatch(TypeText(propBody))
      byType == typeofMatch.found /\ Captured(arrays, typeofMatch.group)
      valArrayMatch ==
        IF validator.found THEN ValArrayMatch(validator.group) ELSE NoMatch
      byValidator ==
        valArrayMatch.found /\ Captured(arrays, valArrayMatch.group)
  IN PropDefinition(
       prop.name,
       IF byType /\ Includes(resolved, TypeofLit) THEN StringTag ELSE resolved,
       validator,
       byType \/ byValidator,
       IF byValidator THEN arrays[valArrayMatch.group]
       ELSE IF byType THEN arrays[typeofMatch.group]
       ELSE <<>>)

IsObjectDecl(decl) == decl.initKind = "ObjectLiteralExpression"

IsPropTypesDecl(decl) ==
  EndsWith(decl.name, PropTypesSuffix) /\ IsObjectDecl(decl)

IsEmitTypesDecl(decl) ==
  /\ EndsWith(decl.name, EmitTypesSuffix)
       \/ EndsWith(decl.name, EmitTypesSuffixLower)
  /\ IsObjectDecl(decl)

IsPropMember(prop) ==
  /\ prop.kind = "PropertyAssignment"
  /\ prop.initKind = "ObjectLiteralExpression"

\* String.prototype.trim
RECURSIVE Trim(_)
Trim(t) ==
  IF t = <<>> THEN t
  ELSE IF Head(t) \in Space THEN Trim(Tail(t))
  ELSE IF t[Len(t)] \in Space THEN Trim(SubSeq(t, 1, Len(t) - 1))
  ELSE t

ParamEnd == {")", ","}

\* where the group of /\(\s*\w+\s*:\s*([^),]+)/ starts for a match at i,
\* -1 when there is no match at i
ParamGroupStart(t, i) ==
  LET w == i + 1 + RunLen(t, i + 1, Space)
      c == w + RunLen(t, w, WordChar) + RunLen(t, w + RunLen(t, w, WordChar), Space)
      g == c + 1 + RunLen(t, c + 1, Space)
  IN IF ~(HasAt(t, i) /\ At(t, i) = "(") THEN -1
     ELSE IF RunLen(t, w, WordChar) = 0 THEN -1
     ELSE IF ~(HasAt(t, c) /\ At(t, c) = ":") THEN -1
     ELSE IF HasAt(t, g) /\ At(t, g) \notin ParamEnd THEN g
     ELSE IF g > c + 1 THEN g - 1
     ELSE -1

ParamAt(t, i) == ParamGroupStart(t, i) # -1

\* emitText.match(/\(\s*\w+\s*:\s*([^),]+)/), then paramMatch[1].trim()
PayloadType(t) ==
  LET i == FirstFrom(t, 0, ParamAt)
      g == ParamGroupStart(t, i)
  IN IF i = -1 THEN NoMatch
     ELSE Match(Trim(Substring(t, g, g + RunLenNot(t, g, ParamEnd))))

EmitDefinition(n, payload) ==
  [name |-> n, hasPayloadType |-> payload.found, payloadType |-> payload.group]

BuildEmit(prop) == EmitDefinition(StripQuotes(prop.name), PayloadType(prop.text))

----------------------------------------------------------------------------
(* Explored definition files *)

SizesDecl ==
  ConstArrayDecl(<<"S", "i", "z", "e", "s">>, <<StringLiteral(<<"'", "s", "m", "'">>), StringLiteral(<<"\"", "m", "d", "\"">>)>>)

TonesDecl == ConstArrayDecl(<<"T", "o", "n", "e", "s">>, <<StringLiteral(<<"\"", "i", "t", "'", "s", "\"">>)>>)

CountsDecl ==
  ConstArrayDecl(<<"C", "o", "u", "n", "t", "s">>, <<NumericLiteral(<<"1">>), NumericLiteral(<<"2">>)>>)

TypeOnly(n, t) == PropEntry(n, <<Field(TypeLit, t)>>)

PropPool ==
  <<PropEntry(<<"s", "i", "z", "e">>,
     <<Field(TypeLit, <<"S", "t", "r", "i", "n", "g", " ", "a", "s", " ", "P", "r", "o", "p", "T", "y", "p", "e", "<", "t", "y", "p", "e", "o", "f", " ", "S", "i", "z", "e", "s", "[", "n", "u", "m", "b", "e", "r", "]", ">">>),
       Field(ValidatorLit, <<"(", "v", ")", " ", "=", ">", " ", "S", "i", "z", "e", "s", ".", "i", "n", "c", "l", "u", "d", "e", "s", "(", "v", ")">>)>>),
   TypeOnly(<<"t", "o", "n", "e">>, <<"S", "t", "r", "i", "n", "g", " ", "a", "s", " ", "P", "r", "o", "p", "T", "y", "p", "e", "<", "t", "y", "p", "e", "o", "f", " ", "T", "o", "n", "e", "s", "[", "n", "u", "m", "b", "e", "r", "]", ">">>),
   TypeOnly(<<"c", "o", "u", "n", "t">>, <<"N", "u", "m", "b", "e", "r", " ", "a", "s", " ", "P", "r", "o", "p", "T", "y", "p", "e", "<", "t", "y", "p", "e", "o", "f", " ", "C", "o", "u", "n", "t", "s", "[", "n", "u", "m", "b", "e", "r", "]", ">">>),
   PropEntry(<<"m", "i", "x", "e", "d">>,
     <<Field(TypeLit, <<"S", "t", "r", "i", "n", "g", " ", "a", "s", " ", "P", "r", "o", "p", "T", "y", "p", "e", "<", "t", "y", "p", "e", "o", "f", " ", "S", "i", "z", "e", "s", "[", "n", "u", "m", "b", "e", "r", "]", ">">>),
       Field(ValidatorLit, <<"(", "v", ")", " ", "=", ">", " ", "T", "o", "n", "e", "s", ".", "i", "n", "c", "l", "u", "d", "e", "s", "(", "v", ")">>)>>),
   TypeOnly(<<"h", "e", "a", "d", "e", "r", "s">>, <<"A", "r", "r", "a", "y", " ", "a", "s", " ", "P", "r", "o", "p", "T", "y", "p", "e", "<", "H", "e", "a", "d", "e", "r", "[", "]", ">">>),
   TypeOnly(<<"l", "o", "o", "k", "u", "p">>, <<"O", "b", "j", "e", "c", "t", " ", "a", "s", " ", "P", "r", "o", "p", "T", "y", "p", "e", "<", "M", "a", "p", "<", "s", "t", "r", "i", "n", "g", ",", " ", "n", "u", "m", "b", "e", "r", ">", ">">>),
   TypeOnly(<<"l", "a", "b", "e", "l">>, <<"S", "t", "r", "i", "n", "g">>),
   TypeOnly(<<"d", "i", "s", "a", "b", "l", "e", "d">>, <<"B", "o", "o", "l", "e", "a", "n">>),
   TypeOnly(<<"m", "a", "x">>, <<"N", "u", "m", "b", "e", "r">>),
   TypeOnly(<<"i", "t", "e", "m", "s">>, <<"A", "r", "r", "a", "y">>),
   TypeOnly(<<"o", "p", "t", "i", "o", "n", "s">>, <<"O", "b", "j", "e", "c", "t">>),
   TypeOnly(<<"f", "o", "r", "m", "a", "t">>, <<"F", "u", "n", "c", "t", "i", "o", "n">>),
   TypeOnly(<<"v", "a", "l", "u", "e">>, <<"[", "S", "t", "r", "i", "n", "g", ",", " ", "N", "u", "m", "b", "e", "r", "]">>),
   PropEntry(<<"p", "l", "a", "i", "n">>, <<Field(ValidatorLit, <<"(", "v", ")", " ", "=", ">", " ", "v", ".", "l", "e", "n", "g", "t", "h", " ", ">", " ", "0">>)>>),
   PropEntry(<<"l", "a", "z", "y">>, <<MethodDeclaration(TypeLit)>>),
   Field(<<"i", "d">>, <<"S", "t", "r", "i", "n", "g">>),
   PropEntry(<<"g", "u", "a", "r", "d", "e", "d">>,
     <<Field(TypeLit, <<"S", "t", "r", "i", "n", "g">>),
       Field(ValidatorLit, <<"(", "v", ")", " ", "=", ">", " ", "S", "i", "z", "e", "s", ".", "i", "n", "c", "l", "u", "d", "e", "s", "(", "v", ")">>)>>),
   PropEntry(<<"s", "t", "r", "i", "c", "t">>,
     <<Field(TypeLit, <<"S", "t", "r", "i", "n", "g">>),
       Field(ValidatorLit, <<"(", "v", ")", " ", "=", ">", " ", "!", "v", ".", "i", "n", "c", "l", "u", "d", "e", "s", "(", "'", " ", "'", ")", " ", "&", "&", " ", "S", "i", "z", "e", "s", ".", "i", "n", "c", "l", "u", "d", "e", "s", "(", "v", ")">>)>>)>>

EmitMembers ==
  <<Field(<<"c", "l", "i", "c", "k">>, <<"(", "e", "v", "t", ":", " ", "M", "o", "u", "s", "e", "E", "v", "e", "n", "t", ")", ":", " ", "e", "v", "t", " ", "i", "s", " ", "M", "o", "u", "s", "e", "E", "v", "e", "n", "t", " ", "=", ">", " ", "t", "r", "u", "e">>),
    Field(<<"'", "u", "p", "d", "a", "t", "e", ":", "m", "o", "d", "e", "l", "V", "a", "l", "u", "e", "'">>, <<"(", "v", "a", "l", "u", "e", ":", " ", "s", "t", "r", "i", "n", "g", ")", " ", "=", ">", " ", "t", "r", "u", "e">>),
    MethodDeclaration(<<"b", "l", "u", "r">>),
    Field(<<"c", "h", "a", "n", "g", "e">>, <<"(", "v", "a", "l", "u", "e", ":", " ", "R", "e", "c", "o", "r", "d", "<", "s", "t", "r", "i", "n", "g", ",", " ", "n", "u", "m", "b", "e", "r", ">", ")", " ", "=", ">", " ", "t", "r", "u", "e">>)>>

DeclKinds == {"object", "call", "absent"}

\* the members of the PropTypes object: the pool entries picked, in pool order
RECURSIVE Picked(_)
Picked(S) ==
  IF S = {} THEN <<>> ELSE <<PropPool[Min(S)]>> \o Picked(S \ {Min(S)})

Picks == {S \in SUBSET (1..Len(PropPool)) : Cardinality(S) <= MaxProps}

\* extra: a further PropTypes object beside buttonPropTypes, holding the
\* first pool entry: "local" is written without export before it, "second"
\* is exported after it.  emitsKind "upper": the EmitTypes object is named
\* with an upper-case suffix.
ExtraKinds == {"none", "local", "second"}

EmitKinds == DeclKinds \cup {"upper"}

Files ==
  {f \in [propsKind : DeclKinds, picks : Picks, emitsKind : EmitKinds,
          extra : ExtraKinds] :
     /\ (f.propsKind # "object" => f.picks = {})
     /\ (f.extra # "none" => f.propsKind = "object" /\ f.picks \subseteq {1})
     /\ (f.emitsKind = "upper" => f.picks = {} /\ f.extra = "none")}

BlockDecl(kind, n, ms) ==
  IF kind = "object" THEN <<ObjectDecl(n, ms)>>
  ELSE IF kind = "call" THEN <<CallDecl(n)>>
  ELSE <<>>

EmitBlock(kind) ==
  IF kind = "upper" THEN <<ObjectDecl(<<"b", "u", "t", "t", "o", "n", "E", "M", "I", "T", "T", "Y", "P", "E", "S">>, EmitMembers)>>
  ELSE BlockDecl(kind, <<"b", "u", "t", "t", "o", "n", "E", "m", "i", "t", "T", "y", "p", "e", "s">>, EmitMembers)

\* sourceFile.getVariableDeclarations()
DeclsOf(f) ==
  <<SizesDecl, TonesDecl, CountsDecl>>
    \o (IF f.extra = "local"
        THEN <<LocalDecl(ObjectDecl(<<"b", "a", "s", "e", "P", "r", "o", "p", "T", "y", "p", "e", "s">>, <<PropPool[1]>>))>>
        ELSE <<>>)
    \o BlockDecl(f.propsKind, <<"b", "u", "t", "t", "o", "n", "P", "r", "o", "p", "T", "y", "p", "e", "s">>, Picked(f.picks))
    \o (IF f.extra = "second"
        THEN <<ObjectDecl(<<"i", "c", "o", "n", "P", "r", "o", "p", "T", "y", "p", "e", "s">>, <<PropPool[1]>>)>>
        ELSE <<>>)
    \o EmitBlock(f.emitsKind)

----------------------------------------------------------------------------
(* parseComponentProps (props-parser.ts) *)

InitProps ==
  /\ sourceFile \in {DeclsOf(f) : f \in Files}
  /\ phase = "start"
  /\ constArrays = <<>>
  /\ props = <<>>
  /\ emits = <<>>
  /\ declIdx = 0
  /\ memberIdx = 0
  /\ doc = [hasTemplate |-> FALSE, closed |-> TRUE, nest |-> 0, items |-> <<>>]
  /\ content = <<>>
  /\ pc = "idle"
  /\ astSlots = <<>>
  /\ openIdx = -1
  /\ openLen = 0
  /\ depth = 0
  /\ pos = 0
  /\ template = <<>>
  /\ searchPos = 0
  /\ slots = <<>>
  /\ seenNames = {}
  /\ tags = <<>>
  /\ SubIdle
  /\ ManIdle
  /\ CacheIdle
  /\ ServerIdle
  /\ TokensIdle
  /\ FnIdle

\* props = [], emits = [], constArrays = extractConstArrays(sourceFile)
Begin ==
  /\ phase = "start"
  /\ constArrays' = ExtractConstArrays(sourceFile)
  /\ phase' = "props"
  /\ declIdx' = 1
  /\ UNCHANGED <<sourceFile, props, emits, memberIdx, notPropVars>>

AtDecl(ph) == phase = ph /\ memberIdx = 0 /\ declIdx <= Len(sourceFile)

AtMember(ph) ==
  /\ phase = ph
  /\ memberIdx > 0
  /\ memberIdx <= Len(sourceFile[declIdx].members)

NextDecl ==
  /\ declIdx' = declIdx + 1
  /\ UNCHANGED <<sourceFile, phase, constArrays, props, emits, memberIdx,
                 notPropVars>>

EnterDecl ==
  /\ memberIdx' = 1
  /\ UNCHANGED <<sourceFile, phase, constArrays, props, emits, declIdx,
                 notPropVars>>

PropsSkipDecl ==
  /\ AtDecl("props")
  /\ ~IsPropTypesDecl(sourceFile[declIdx])
  /\ NextDecl

PropsEnterDecl ==
  /\ AtDecl("props")
  /\ IsPropTypesDecl(sourceFile[declIdx])
  /\ EnterDecl

PropsSkipMember ==
  /\ AtMember("props")
  /\ ~IsPropMember(sourceFile[declIdx].members[memberIdx])
  /\ memberIdx' = memberIdx + 1
  /\ UNCHANGED <<sourceFile, phase, constArrays, props, emits, declIdx,
                 notPropVars>>

PropsThrow ==
  /\ AtMember("props")
  /\ LET prop == sourceFile[declIdx].members[memberIdx]
     IN /\ IsPropMember(prop)
        /\ TypeTextThrows(prop.members)
  /\ phase' = "thrown"
  /\ UNCHANGED <<sourceFile, constArrays, props, emits, declIdx, memberIdx,
                 notPropVars>>

PropsPush ==
  /\ AtMember("props")
  /\ LET prop == sourceFile[declIdx].members[memberIdx]
     IN /\ IsPropMember(prop)
        /\ ~TypeTextThrows(prop.members)
        /\ props' = Append(props, BuildProp(prop, constArrays))
  /\ memberIdx' = memberIdx + 1
  /\ UNCHANGED <<sourceFile, phase, constArrays, emits, declIdx, notPropVars>>

PropsLeaveDecl ==
  /\ phase = "props"
  /\ memberIdx > 0
  /\ memberIdx > Len(sourceFile[declIdx].members)
  /\ memberIdx' = 0
  /\ declIdx' = declIdx + 1
  /\ UNCHANGED <<sourceFile, phase, constArrays, props, emits, notPropVars>>

PropsEnd ==
  /\ phase = "props"
  /\ declIdx > Len(sourceFile)
  /\ phase' = "emits"
  /\ declIdx' = 1
  /\ UNCHANGED <<sourceFile, constArrays, props, emits, memberIdx, notPropVars>>

EmitsSkipDecl ==
  /\ AtDecl("emits")
  /\ ~IsEmitTypesDecl(sourceFile[declIdx])
  /\ NextDecl

EmitsEnterDecl ==
  /\ AtDecl("emits")
  /\ IsEmitTypesDecl(sourceFile[declIdx])
  /\ EnterDecl

EmitsSkipMember ==
  /\ AtMember("emits")
  /\ sourceFile[declIdx].members[memberIdx].kind # "PropertyAssignment"
  /\ memberIdx' = memberIdx + 1
  /\ UNCHANGED <<sourceFile, phase, constArrays, props, emits, declIdx,
                 notPropVars>>

EmitsPush ==
  /\ AtMember("emits")
  /\ LET prop == sourceFile[declIdx].members[memberIdx]
     IN /\ prop.kind = "PropertyAssignment"
        /\ emits' = Append(emits, BuildEmit(prop))
  /\ memberIdx' = memberIdx + 1
  /\ UNCHANGED <<sourceFile, phase, constArrays, props, declIdx, notPropVars>>

EmitsLeaveDecl ==
  /\ phase = "emits"
  /\ memberIdx > 0
  /\ memberIdx > Len(sourceFile[declIdx].members)
  /\ memberIdx' = 0
  /\ declIdx' = declIdx + 1
  /\ UNCHANGED <<sourceFile, phase, constArrays, props, emits, notPropVars>>

\* return { props, emits }
EmitsEnd ==
  /\ phase = "emits"
  /\ declIdx > Len(sourceFile)
  /\ phase' = "done"
  /\ UNCHANGED <<sourceFile, constArrays, props, emits, declIdx, memberIdx,
                 notPropVars>>

NextProps ==
  \/ Begin
  \/ PropsSkipDecl
  \/ PropsEnterDecl
  \/ PropsSkipMember
  \/ PropsThrow
  \/ PropsPush
  \/ PropsLeaveDecl
  \/ PropsEnd
  \/ EmitsSkipDecl
  \/ EmitsEnterDecl
  \/ EmitsSkipMember
  \/ EmitsPush
  \/ EmitsLeaveDecl
  \/ EmitsEnd

SpecProps == InitProps /\ [][NextProps]_vars

----------------------------------------------------------------------------
(* What a descriptor declares, read off its markers in document order *)

IsSlotMarker(n) == n.tag = SlotTag

SlotMarkers(d) == SelectSeq(d.items, IsSlotMarker)

\* the text of a marker's opening tag between "<slot" and its closing '>'
MarkerText(n) ==
  RenderProps(n.props) \o (IF n.selfClosing THEN <<"/">> ELSE <<>>)

NamesOf(res) == {res[k].name : k \in 1..Len(res)}

\* the entry each extractor builds from one marker taken alone
LinearEntry(n) ==
  SlotDef(LinearSlotName(MarkerText(n)), LinearScopeProps(MarkerText(n)))

AstEntry(n) == SlotDef(AstSlotName(n.props), AstScopeProps(n.props))

LinearEntries(d) ==
  [i \in 1..Len(SlotMarkers(d)) |-> LinearEntry(SlotMarkers(d)[i])]

AstEntries(d) ==
  [i \in 1..Len(SlotMarkers(d)) |-> AstEntry(SlotMarkers(d)[i])]

FirstWith(es, name) == Min({i \in 1..Len(es) : es[i].name = name})

\* res keeps, for each name it reports, the entry of the first marker with
\* that name, one entry per name, in the order of those first markers
FirstWins(res, es) ==
  /\ \A j, k \in 1..Len(res) : j # k => res[j].name # res[k].name
  /\ \A k \in 1..Len(res) :
       /\ res[k].name \in NamesOf(es)
       /\ res[k] = es[FirstWith(es, res[k].name)]
  /\ \A j, k \in 1..Len(res) :
       j < k => FirstWith(es, res[j].name) < FirstWith(es, res[k].name)

LinearDone == pc = "done"

AstDone == pc = "done"

Extractable(d) == d.hasTemplate /\ d.closed

\* C1: parseSlots (either extractor) reports each name once, keeping the entry
\* of the first marker with that name; every later marker with the name adds
\* nothing; two unnamed markers give exactly one entry, named "default".
C1_FirstOccurrenceWins ==
  /\ AstDone =>
       /\ FirstWins(astSlots, AstEntries(doc))
       /\ NamesOf(astSlots) = NamesOf(AstEntries(doc))
  /\ LinearDone =>
       /\ FirstWins(slots, LinearEntries(doc))
       /\ Extractable(doc) => NamesOf(slots) = NamesOf(LinearEntries(doc))
       /\ (Extractable(doc) /\ DefaultName \in NamesOf(LinearEntries(doc))) =>
            Cardinality({k \in 1..Len(slots) : slots[k].name = DefaultName}) = 1

C1_Witness ==
  /\ LinearDone
  /\ Extractable(doc)
  /\ Len(SlotMarkers(doc)) = 2
  /\ LinearEntries(doc)[1].name = LinearEntries(doc)[2].name
  /\ LinearEntries(doc)[1] # LinearEntries(doc)[2]
  /\ slots = <<LinearEntries(doc)[1]>>
  /\ astSlots = <<AstEntries(doc)[1]>>

\* C2: with balanced nested <template> pairs inside the root one,
\* extractRootTemplate returns the text up to the closer that brings the depth
\* back to zero, so the markers after an inner </template> are reported.
C2_RootTemplateSpansNested ==
  (Extractable(doc) /\ LinearDone) =>
     /\ template = RenderChildren(RootNode(doc))
     /\ NamesOf(slots) = NamesOf(LinearEntries(doc))

C2_Witness ==
  /\ LinearDone
  /\ doc.nest >= 2
  /\ Len(doc.items) = 2
  /\ Len(slots) = 2
  /\ slots[2] = LinearEntry(doc.items[2])

\* C3: for every well-formed descriptor the linear text scan and the template
\* tree walk return the same sequence of slot declarations.
C3_ScanEqualsTreeWalk ==
  (LinearDone /\ WellFormed(doc)) => slots = astSlots

\* the bindings a marker carries other than name and class, in document order
IsOtherBinding(p) ==
  p.type = 7 /\ p.name = BindLit /\ p.arg # NameLit /\ p.arg # ClassLit

DeclaredBindings(n) ==
  LET b == SelectSeq(n.props, IsOtherBinding)
  IN [i \in 1..Len(b) |-> b[i].arg]

DeclaredName(n) ==
  IF \E i \in 1..Len(n.props) : IsStaticName(n.props[i])
  THEN n.props[Min({i \in 1..Len(n.props) : IsStaticName(n.props[i])})].value
  ELSE IF \E i \in 1..Len(n.props) : IsDynamicName(n.props[i])
  THEN Bracketed(
         n.props[Min({i \in 1..Len(n.props) : IsDynamicName(n.props[i])})].exp)
  ELSE DefaultName

ScopeMatches(res, d) ==
  \A k \in 1..Len(res) :
    \A i \in 1..Len(SlotMarkers(d)) :
      (/\ DeclaredName(SlotMarkers(d)[i]) = res[k].name
       /\ \A h \in 1..(i - 1) : DeclaredName(SlotMarkers(d)[h]) # res[k].name)
      => /\ res[k].scopeProps = DeclaredBindings(SlotMarkers(d)[i])
         /\ res[k].scoped = (DeclaredBindings(SlotMarkers(d)[i]) # <<>>)
         /\ res[k].hasScopeProps = res[k].scoped

\* C4: for the first marker with each name, scopeProps is the sequence of its
\* bindings other than name and class in document order, scoped holds exactly
\* when that sequence is non-empty, and scopeProps is present only when scoped.
C4_ScopePropsAreTheBindings ==
  /\ AstDone => ScopeMatches(astSlots, doc)
  /\ LinearDone => ScopeMatches(slots, doc)

\* C5: the opening tag of a <slot marker ends at the first '>' outside quoted
\* attribute values; what follows a quoted '>' is still part of the tag, and
\* the scan resumes after the real tag end.
C5_TagEndsOutsideQuotes ==
  (Extractable(doc) /\ LinearDone) =>
     /\ Len(tags) = Len(SlotMarkers(doc))
     /\ \A k \in 1..Len(tags) :
          /\ HasAt(template, tags[k].tagEnd)
          /\ At(template, tags[k].tagEnd) = ">"
          /\ Substring(template, tags[k].idx + 5, tags[k].tagEnd)
               = MarkerText(SlotMarkers(doc)[k])
          /\ k > 1 => tags[k].idx > tags[k - 1].tagEnd

HasQuotedGt(n) ==
  \E i \in 1..Len(n.props) : Includes(n.props[i].exp, <<">">>)

C5_Witness ==
  /\ LinearDone
  /\ Len(doc.items) = 2
  /\ IsSlotMarker(doc.items[1]) /\ HasQuotedGt(doc.items[1])
  /\ IsSlotMarker(doc.items[2])
  /\ Len(tags) = 2
  /\ slots[1].name = <<"b">>
  /\ slots[2] = LinearEntry(doc.items[2])

HasBothNames(n) ==
  /\ \E i \in 1..Len(n.props) : IsStaticName(n.props[i])
  /\ \E i \in 1..Len(n.props) : IsDynamicName(n.props[i])

----------------------------------------------------------------------------
(* Properties of parseComponentProps *)

Returned == phase = "done"

\* the members of the file's PropTypes object literals, in source order
DeclaredProps ==
  Concat([i \in 1..Len(sourceFile) |->
            IF IsPropTypesDecl(sourceFile[i]) THEN sourceFile[i].members
            ELSE <<>>])

HasPropsBlock == \E i \in 1..Len(sourceFile) : IsPropTypesDecl(sourceFile[i])

HasEmitsBlock == \E i \in 1..Len(sourceFile) : IsEmitTypesDecl(sourceFile[i])

\* the declared entry a returned property was read from
EntryOf(p) ==
  CHOOSE e \in {DeclaredProps[i] : i \in 1..Len(DeclaredProps)} : e.name = p.name

HasTypeField(e) ==
  \E i \in 1..Len(e.members) :
    e.members[i].name = TypeLit /\ e.members[i].kind = "PropertyAssignment"

TypeFieldText(e) ==
  (CHOOSE m \in {e.members[i] : i \in 1..Len(e.members)} :
     m.name = TypeLit).text

\* the string a string literal denotes: its text without the delimiters
LiteralValue(t) == Substring(t, 1, Len(t) - 1)

\* const X = [v1..vn] as const with n >= 1 string literals
StringArrays ==
  {sourceFile[i] : i \in
     {j \in 1..Len(sourceFile) :
        /\ IsConstArray(sourceFile[j])
        /\ Len(sourceFile[j].elems) >= 1
        /\ \A k \in 1..Len(sourceFile[j].elems) :
             sourceFile[j].elems[k].kind = "StringLiteral"}}

LiteralValues(decl) ==
  [k \in 1..Len(decl.elems) |-> LiteralValue(decl.elems[k].text)]

\* the type text is a generic wrapper that refers to typeof X
WrapsTypeof(t, x) ==
  /\ Includes(t, PropTypeOpenLit)
  /\ Includes(t, TypeofLit \o <<" ">> \o x)

IsAssignment(m) == m.kind = "PropertyAssignment"

\* C7: parseComponentProps never signals an error; without a PropTypes
\* object props is empty, without an EmitTypes object emits is empty, and
\* each half is complete whatever the other block looks like.
C7_NeverThrowsHalvesIndependent ==
  /\ phase # "thrown"
  /\ Returned =>
       /\ (~HasPropsBlock => props = <<>>)
       /\ (~HasEmitsBlock => emits = <<>>)
       /\ (HasEmitsBlock => Len(emits) = Len(SelectSeq(EmitMembers, IsAssignment)))
       /\ Len(props) = Len(SelectSeq(DeclaredProps, IsPropMember))

\* C8: a property whose type wraps typeof X, X a literal-array constant of
\* n >= 1 string literals, has validValues equal to the literals' values in
\* declaration order and type "string".
C8_ConstArrayRoundTrip ==
  \A i \in 1..Len(props) : \A x \in StringArrays :
    (HasTypeField(EntryOf(props[i]))
       /\ WrapsTypeof(TypeFieldText(EntryOf(props[i])), x.name))
    => /\ props[i].hasValidValues
       /\ props[i].validValues = LiteralValues(x)
       /\ props[i].type = StringTag

\* C9: every returned property has a non-empty type, "unknown" when the
\* entry has no usable type field, and validValues, when present, is a
\* non-empty sequence.
C9_TypePopulatedValuesNonEmpty ==
  \A i \in 1..Len(props) :
    /\ Len(props[i].type) >= 1
    /\ (~HasTypeField(EntryOf(props[i])) => props[i].type = UnknownLit)
    /\ (props[i].hasValidValues => Len(props[i].validValues) >= 1)

C9_Witness ==
  /\ Returned
  /\ \E i \in 1..Len(props) :
       /\ props[i].name = <<"c", "o", "u", "n", "t">>
       /\ ~props[i].hasValidValues
       /\ props[i].type = <<"t", "y", "p", "e", "o", "f", " ", "C", "o", "u", "n", "t", "s", "[", "n", "u", "m", "b", "e", "r", "]">>
  /\ \E i \in 1..Len(props) :
       props[i].name = <<"p", "l", "a", "i", "n">> /\ props[i].type = UnknownLit

LowercaseTags ==
  {<<"S", "t", "r", "i", "n", "g">>, <<"B", "o", "o", "l", "e", "a", "n">>, <<"N", "u", "m", "b", "e", "r">>, <<"A", "r", "r", "a", "y">>, <<"O", "b", "j", "e", "c", "t">>, <<"F", "u", "n", "c", "t", "i", "o", "n">>}

Lowered(t) ==
  IF t = <<"S", "t", "r", "i", "n", "g">> THEN <<"s", "t", "r", "i", "n", "g">>
  ELSE IF t = <<"B", "o", "o", "l", "e", "a", "n">> THEN <<"b", "o", "o", "l", "e", "a", "n">>
  ELSE IF t = <<"N", "u", "m", "b", "e", "r">> THEN <<"n", "u", "m", "b", "e", "r">>
  ELSE IF t = <<"A", "r", "r", "a", "y">> THEN <<"a", "r", "r", "a", "y">>
  ELSE IF t = <<"O", "b", "j", "e", "c", "t">> THEN <<"o", "b", "j", "e", "c", "t">>
  ELSE <<"f", "u", "n", "c", "t", "i", "o", "n">>

\* the text between the first "PropType<" and the next ">"
WrapperInner(t) ==
  LET a == IndexOf(t, PropTypeOpenLit, 0) + 9
  IN Substring(t, a, IndexOf(t, <<">">>, a))

IsWrapper(t) ==
  /\ Includes(t, PropTypeOpenLit)
  /\ IndexOf(t, <<">">>, IndexOf(t, PropTypeOpenLit, 0) + 9)
       > IndexOf(t, PropTypeOpenLit, 0) + 9

RefersToCaptured(inner) ==
  \E x \in StringArrays : Includes(inner, TypeofLit \o <<" ">> \o x.name)

FirstExportedProps ==
  LET c == {i \in 1..Len(sourceFile) :
              IsPropTypesDecl(sourceFile[i]) /\ sourceFile[i].exported}
  IN IF c = {} THEN <<>> ELSE sourceFile[Min(c)].members

\* C11: the returned property names are pairwise distinct and the entries
\* come from one exported PropTypes object only; a declaration without
\* export, or a second PropTypes declaration, contributes nothing.
C11_SingleExportedBlock ==
  /\ \A i, j \in 1..Len(props) : i # j => props[i].name # props[j].name
  /\ Returned =>
       Len(props) = Len(SelectSeq(FirstExportedProps, IsPropMember))

UpperLetters ==
  <<"A", "B", "C", "D", "E", "F", "G", "H", "I", "J", "K", "L", "M",
    "N", "O", "P", "Q", "R", "S", "T", "U", "V", "W", "X", "Y", "Z">>

LowerLetters ==
  <<"a", "b", "c", "d", "e", "f", "g", "h", "i", "j", "k", "l", "m",
    "n", "o", "p", "q", "r", "s", "t", "u", "v", "w", "x", "y", "z">>

ToLowerChar(c) ==
  IF \E k \in 1..26 : UpperLetters[k] = c
  THEN LowerLetters[CHOOSE k \in 1..26 : UpperLetters[k] = c]
  ELSE c

\* String.prototype.toLowerCase
ToLowerCase(s) == [i \in 1..Len(s) |-> ToLowerChar(s[i])]

\* the exported object literals whose name ends in emitTypes, in any casing
EmitBlocks ==
  {i \in 1..Len(sourceFile) :
     /\ IsObjectDecl(sourceFile[i])
     /\ sourceFile[i].exported
     /\ EndsWith(ToLowerCase(sourceFile[i].name), <<"e", "m", "i", "t", "t", "y", "p", "e", "s">>)}

\* a key without its surrounding quote characters
Unquoted(k) ==
  IF Len(k) >= 2 /\ k[1] \in Quote /\ k[Len(k)] = k[1]
  THEN Substring(k, 1, Len(k) - 1)
  ELSE k

Openers == {"(", "<", "[", "{"}

Closers == {")", ">", "]", "}"}

\* where a type text starting at i ends: at the first "," or ")" that is
\* not inside brackets of the type
RECURSIVE TypeEnd(_, _, _)
TypeEnd(t, i, open) ==
  IF ~HasAt(t, i) THEN i
  ELSE IF open = 0 /\ At(t, i) \in ParamEnd THEN i
  ELSE IF At(t, i) \in Openers THEN TypeEnd(t, i + 1, open + 1)
  ELSE IF At(t, i) \in Closers THEN TypeEnd(t, i + 1, open - 1)
  ELSE TypeEnd(t, i + 1, open)

\* the type text of the first parameter written `param: Type` in the
\* parameter list that opens the value
FirstParamType(t) ==
  LET w == 1 + RunLen(t, 1, Space)
      c == w + RunLen(t, w, WordChar) + RunLen(t, w + RunLen(t, w, WordChar), Space)
      g == c + 1 + RunLen(t, c + 1, Space)
  IN IF /\ StartsAt(t, 0, <<"(">>)
        /\ RunLen(t, w, WordChar) >= 1
        /\ HasAt(t, c) /\ At(t, c) = ":"
     THEN Match(Trim(Substring(t, g, TypeEnd(t, g, 0))))
     ELSE NoMatch

ExpectedEmit(m) == EmitDefinition(Unquoted(m.name), FirstParamType(m.text))

ExpectedEmits ==
  IF EmitBlocks = {} THEN <<>>
  ELSE LET ms == SelectSeq(sourceFile[Min(EmitBlocks)].members, IsAssignment)
       IN [k \in 1..Len(ms) |-> ExpectedEmit(ms[k])]

\* C12: emits are read from the exported object literal whose name ends in
\* emitTypes in any casing; each key/value entry gives the key without its
\* surrounding quotes and the type text of its first `param: Type`
\* parameter, or no payloadType when there is none.
C12_EmitNamesAndPayloads == Returned => emits = ExpectedEmits

----------------------------------------------------------------------------
(* getSubComponents and toPascalCase (utils.ts) *)

VueExt == <<".", "v", "u", "e">>
TsExt == <<".", "t", "s">>

\* a file of a directory listing
FileEntry(n) == [name |-> n, isDirectory |-> FALSE, inner |-> <<>>]

\* a subdirectory of a directory listing and the names readdirSync gives in it
DirEntry(n, names) == [name |-> n, isDirectory |-> TRUE, inner |-> names]

\* index of the last "." of a name, -1 when there is none
LastDot(s) ==
  LET c == {i \in 0..(Len(s) - 1) : At(s, i) = "."}
  IN IF c = {} THEN -1 ELSE CHOOSE i \in c : \A j \in c : j <= i

\* path.extname: from the last "." on, '' when the name has none or only
\* starts with one
ExtName(s) == IF LastDot(s) <= 0 THEN <<>> ELSE Substring(s, LastDot(s), Len(s))

\* s.replace(lit, ''): the first occurrence of lit removed
RemoveFirst(s, lit) ==
  LET i == IndexOf(s, lit, 0)
  IN IF i = -1 THEN s
     ELSE Substring(s, 0, i) \o Substring(s, i + Len(lit), Len(s))

ToUpperChar(c) ==
  IF \E k \in 1..26 : LowerLetters[k] = c
  THEN UpperLetters[CHOOSE k \in 1..26 : LowerLetters[k] = c]
  ELSE c

CapitalizeWhole(part) == [i \in 1..Len(part) |-> ToUpperChar(part[i])]

\* part.charAt(0).toUpperCase() + part.slice(1)
Capitalize(part) ==
  IF part = <<>> THEN <<>> ELSE <<ToUpperChar(part[1])>> \o Tail(part)

\* kebab.split('-').map(capitalize).join('')
RECURSIVE PascalFrom(_, _)
PascalFrom(s, from) ==
  LET i == IndexOf(s, <<"-">>, from)
  IN IF i = -1 THEN Capitalize(Substring(s, from, Len(s)))
     ELSE Capitalize(Substring(s, from, i)) \o PascalFrom(s, i + 1)

ToPascalCase(kebab) == PascalFrom(kebab, 0)

SubComponentMeta(n, pascal, hasProps) ==
  [name |-> n, pascalName |-> pascal, hasProps |-> hasProps]

\* existsSync(join(dir, name)) for a listing of dir
ExistsIn(names, n) == \E i \in 1..Len(names) : names[i] = n

EntryNames(entries) == [i \in 1..Len(entries) |-> entries[i].name]

IsVue(n) == ExtName(n) = VueExt

\* innerEntries.filter(e => extname(e) === '.vue')
InnerVues(entry) == SelectSeq(entry.inner, IsVue)

HasTs(entry) == ExistsIn(entry.inner, entry.name \o TsExt)

HasVue(entry) == ExistsIn(entry.inner, entry.name \o VueExt)

OwnFileNever(hasTs, hasVue) == FALSE

\* if (hasTs || hasVue)
HasOwnFile(hasTs, hasVue) == hasTs \/ hasVue

\* one entry per inner descriptor file: { name: vueName, pascalName: vueName,
\* hasProps: false }
ForeignSubs(vues) ==
  [i \in 1..Len(vues) |->
     SubComponentMeta(RemoveFirst(vues[i], VueExt), RemoveFirst(vues[i], VueExt),
                      FALSE)]

OwnNameKept(fileName, componentName) == TRUE

\* if (fileName !== componentName)
IsOtherName(fileName, componentName) == fileName # componentName

\* Explored component directories: up to MaxEntries entries of the pool, in
\* listing order, of the component "table"
EntryPool ==
  <<FileEntry(<<"Y", "e", "a", "r", "T", "a", "b", ".", "v", "u", "e">>),
    DirEntry(<<"f", "i", "x", "t", "u", "r", "e", "s">>, <<<<"d", "a", "t", "a", ".", "j", "s", "o", "n">>>>),
    DirEntry(<<"h", "o", "o", "k", "s">>, <<<<"h", "o", "o", "k", "s", ".", "t", "s">>>>),
    FileEntry(<<"m", "y", ".", "v", "u", "e", "x", ".", "v", "u", "e">>),
    DirEntry(<<"t", "a", "b", "l", "e", "-", "a", "c", "t", "i", "o", "n", "s">>,
             <<<<"E", "x", "t", "r", "a", ".", "v", "u", "e">>, <<"t", "a", "b", "l", "e", "-", "a", "c", "t", "i", "o", "n", "s", ".", "t", "s">>, <<"t", "a", "b", "l", "e", "-", "a", "c", "t", "i", "o", "n", "s", ".", "v", "u", "e">>>>),
    FileEntry(<<"t", "a", "b", "l", "e", "-", "l", "o", "a", "d", "e", "r", ".", "t", "s">>),
    FileEntry(<<"t", "a", "b", "l", "e", "-", "l", "o", "a", "d", "e", "r", ".", "v", "u", "e">>),
    DirEntry(<<"t", "a", "b", "l", "e", "-", "r", "o", "w">>, <<<<"t", "a", "b", "l", "e", "-", "r", "o", "w", ".", "v", "u", "e">>>>),
    FileEntry(<<"t", "a", "b", "l", "e", ".", "t", "s">>),
    FileEntry(<<"t", "a", "b", "l", "e", ".", "v", "u", "e">>),
    DirEntry(<<"t", "a", "b", "s">>, <<<<"M", "o", "n", "t", "h", "T", "a", "b", ".", "t", "s">>, <<"M", "o", "n", "t", "h", "T", "a", "b", ".", "v", "u", "e">>, <<"Y", "e", "a", "r", "T", "a", "b", ".", "v", "u", "e">>>>)>>

RECURSIVE Listing(_)
Listing(S) ==
  IF S = {} THEN <<>> ELSE <<EntryPool[Min(S)]>> \o Listing(S \ {Min(S)})

ComponentDirs ==
  {[exists |-> TRUE, componentName |-> <<"t", "a", "b", "l", "e">>, entries |-> Listing(S)] :
     S \in {T \in SUBSET (1..Len(EntryPool)) : Cardinality(T) <= MaxEntries}}
  \cup {[exists |-> FALSE, componentName |-> <<"t", "a", "b", "l", "e">>, entries |-> <<>>]}

InitSub ==
  /\ componentDir \in ComponentDirs
  /\ subPc = "start"
  /\ entryIdx = 0
  /\ subs = <<>>
  /\ SlotsIdle
  /\ PropsIdle
  /\ ManIdle
  /\ CacheIdle
  /\ ServerIdle
  /\ TokensIdle
  /\ FnIdle

\* if (!existsSync(componentDir)) return subs
SubMissing ==
  /\ subPc = "start"
  /\ ~componentDir.exists
  /\ subPc' = "done"
  /\ UNCHANGED <<componentDir, entryIdx, subs, notSubVars>>

\* const entries = readdirSync(componentDir)
SubList ==
  /\ subPc = "start"
  /\ componentDir.exists
  /\ subPc' = "loop"
  /\ entryIdx' = 1
  /\ UNCHANGED <<componentDir, subs, notSubVars>>

AtEntry == subPc = "loop" /\ entryIdx <= Len(componentDir.entries)

Entry == componentDir.entries[entryIdx]

NextEntry ==
  /\ entryIdx' = entryIdx + 1
  /\ UNCHANGED <<componentDir, subPc, notSubVars>>

\* a subdirectory holding a same-named .ts or .vue
SubNested ==
  /\ AtEntry
  /\ Entry.isDirectory
  /\ HasOwnFile(HasTs(Entry), HasVue(Entry))
  /\ subs' = Append(subs, SubComponentMeta(Entry.name, ToPascalCase(Entry.name),
                                           HasTs(Entry)))
  /\ NextEntry

\* a subdirectory holding only differently-named .vue files
SubForeign ==
  /\ AtEntry
  /\ Entry.isDirectory
  /\ ~HasOwnFile(HasTs(Entry), HasVue(Entry))
  /\ Len(InnerVues(Entry)) > 0
  /\ subs' = subs \o ForeignSubs(InnerVues(Entry))
  /\ NextEntry

\* a subdirectory without any .vue or same-named file
SubOtherDir ==
  /\ AtEntry
  /\ Entry.isDirectory
  /\ ~HasOwnFile(HasTs(Entry), HasVue(Entry))
  /\ Len(InnerVues(Entry)) = 0
  /\ subs' = subs
  /\ NextEntry

\* a .vue file of the component directory named unlike the component
SubFlat ==
  /\ AtEntry
  /\ ~Entry.isDirectory
  /\ IsVue(Entry.name)
  /\ LET fileName == RemoveFirst(Entry.name, VueExt)
     IN /\ IsOtherName(fileName, componentDir.componentName)
        /\ subs' = Append(subs,
             SubComponentMeta(fileName, ToPascalCase(fileName),
               ExistsIn(EntryNames(componentDir.entries), fileName \o TsExt)))
  /\ NextEntry

\* the component's own .vue file
SubOwnFile ==
  /\ AtEntry
  /\ ~Entry.isDirectory
  /\ IsVue(Entry.name)
  /\ ~IsOtherName(RemoveFirst(Entry.name, VueExt), componentDir.componentName)
  /\ subs' = subs
  /\ NextEntry

\* a file that is no .vue file
SubOtherFile ==
  /\ AtEntry
  /\ ~Entry.isDirectory
  /\ ~IsVue(Entry.name)
  /\ subs' = subs
  /\ NextEntry

\* return subs
SubReturn ==
  /\ subPc = "loop"
  /\ entryIdx > Len(componentDir.entries)
  /\ subPc' = "done"
  /\ UNCHANGED <<componentDir, entryIdx, subs, notSubVars>>

NextSub ==
  \/ SubMissing
  \/ SubList
  \/ SubNested
  \/ SubForeign
  \/ SubOtherDir
  \/ SubFlat
  \/ SubOwnFile
  \/ SubOtherFile
  \/ SubReturn

SpecSub == InitSub /\ [][NextSub]_vars

----------------------------------------------------------------------------
(* Properties of getSubComponents *)

SubsReturned == subPc = "done"

SubsNamed(n) == {k \in 1..Len(subs) : subs[k].name = n}

Entries == {componentDir.entries[i] : i \in 1..Len(componentDir.entries)}

Names(ns) == {ns[i] : i \in 1..Len(ns)}

EndsInVue(n) == Len(n) > 4 /\ EndsWith(n, VueExt)

\* the name of a descriptor file without its .vue ending
Stem(n) == Substring(n, 0, Len(n) - 4)

\* a subdirectory that holds a same-named .ts or .vue
OwnsFile(x) ==
  /\ x.isDirectory
  /\ (x.name \o TsExt) \in Names(x.inner) \/ (x.name \o VueExt) \in Names(x.inner)

\* C13: a subdirectory x holding x.ts or x.vue gives exactly one sub-entity,
\* named x with pascalName toPascalCase(x) and hasProps = x.ts exists, and
\* the other .vue files inside x give none.
C13_NestedOwnFileOneEntry ==
  SubsReturned =>
    \A x \in Entries : OwnsFile(x) =>
      /\ Cardinality(SubsNamed(x.name)) = 1
      /\ \A k \in SubsNamed(x.name) :
           subs[k] = SubComponentMeta(x.name, ToPascalCase(x.name),
                                      (x.name \o TsExt) \in Names(x.inner))
      /\ \A v \in Names(x.inner) :
           (EndsInVue(v) /\ v # x.name \o VueExt) => SubsNamed(Stem(v)) = {}

C13_Witness ==
  /\ SubsReturned
  /\ \E k \in 1..Len(subs) :
       subs[k] = SubComponentMeta(<<"t", "a", "b", "l", "e", "-", "a", "c", "t", "i", "o", "n", "s">>, <<"T", "a", "b", "l", "e", "A", "c", "t", "i", "o", "n", "s">>, TRUE)
  /\ \E k \in 1..Len(subs) :
       subs[k] = SubComponentMeta(<<"t", "a", "b", "l", "e", "-", "r", "o", "w">>, <<"T", "a", "b", "l", "e", "R", "o", "w">>, FALSE)
  /\ \E k \in 1..Len(subs) :
       subs[k] = SubComponentMeta(<<"h", "o", "o", "k", "s">>, <<"H", "o", "o", "k", "s">>, TRUE)

\* C14: every file y.vue of the component directory with y other than the
\* component's name gives exactly one sub-entity {y, toPascalCase(y),
\* hasProps = y.ts is in the directory}; the component's own .vue gives none.
C14_FlatFileOneEntry ==
  SubsReturned =>
    \A e \in Entries : (~e.isDirectory /\ EndsInVue(e.name)) =>
      IF Stem(e.name) = componentDir.componentName
      THEN SubsNamed(Stem(e.name)) = {}
      ELSE /\ Cardinality(SubsNamed(Stem(e.name))) = 1
           /\ \A k \in SubsNamed(Stem(e.name)) :
                subs[k] = SubComponentMeta(Stem(e.name), ToPascalCase(Stem(e.name)),
                  \E f \in Entries : f.name = Stem(e.name) \o TsExt)

\* C15: under each of the three layouts hasProps is true exactly when a .ts
\* file named after the sub-entity lies beside the descriptor file that
\* matched, also for differently-named .vue files inside a subdirectory.
C15_HasPropsIffDefinitionFile ==
  SubsReturned =>
    /\ \A x \in Entries : OwnsFile(x) =>
         \A k \in SubsNamed(x.name) :
           subs[k].hasProps <=> (x.name \o TsExt) \in Names(x.inner)
    /\ \A x \in Entries : (x.isDirectory /\ ~OwnsFile(x)) =>
         \A v \in Names(x.inner) : EndsInVue(v) =>
           \A k \in SubsNamed(Stem(v)) :
             subs[k].hasProps <=> (Stem(v) \o TsExt) \in Names(x.inner)
    /\ \A e \in Entries : (~e.isDirectory /\ EndsInVue(e.name)) =>
         \A k \in SubsNamed(Stem(e.name)) :
           subs[k].hasProps <=> \E f \in Entries : f.name = Stem(e.name) \o TsExt

----------------------------------------------------------------------------
(* buildManifest: the component loop (generate-manifest.ts) *)

\* A component directory as the loop meets it.  ts / vue say whether
\* <name>.ts / <name>.vue exists and what its parsers do: "none" (no file),
\* "ok", or the parser that throws.
ComponentOnDisk(n, ts, vue, composableFiles, subDirs) ==
  [name |-> n, isDirectory |-> TRUE, ts |-> ts, vue |-> vue,
   composables |-> composableFiles, subs |-> subDirs]

\* an entry of the components directory that is a plain file
PlainFile(n) ==
  [name |-> n, isDirectory |-> FALSE, ts |-> "none", vue |-> "none",
   composables |-> <<>>, subs |-> <<>>]

\* a use-*.ts file and whether parseComposable throws on it
ComposableFile(n, throws) == [name |-> n, throws |-> throws]

\* a sub-entity getSubComponents returned, with what resolveSubComponentPath
\* finds for its .ts and .vue and what the parsers do on them
SubOnDisk(n, hasProps, ts, vue) ==
  [name |-> n, pascalName |-> ToPascalCase(n), hasProps |-> hasProps,
   ts |-> ts, vue |-> vue]

\* the non-empty list a parser returns for a file
Parsed(kind, file) == <<[parsed |-> kind, file |-> file]>>

RethrowParseError(next) == "crashed"

\* catch (err) { console.warn(...) }: the run goes on with the next step
OnParseError(next) == next

IsComposableParsed(f) == ~f.throws

\* composables.push(parseComposable(...)) for each use-*.ts that parses
ParsedComposables(files) ==
  LET ok == SelectSeq(files, IsComposableParsed)
  IN [i \in 1..Len(ok) |-> [parsed |-> "composable", file |-> ok[i].name]]

\* subs.map(sub => ...): the details of one sub-entity
SubDetail(sub) ==
  [name |-> sub.name,
   pascalName |-> sub.pascalName,
   props |-> IF sub.hasProps /\ sub.ts = "ok"
             THEN Parsed("props", sub.name) ELSE <<>>,
   emits |-> IF sub.hasProps /\ sub.ts = "ok"
             THEN Parsed("emits", sub.name) ELSE <<>>,
   slots |-> IF sub.vue = "ok" THEN Parsed("slots", sub.name) ELSE <<>>]

SubComponentDetails(ss) == [i \in 1..Len(ss) |-> SubDetail(ss[i])]

\* let props = [], emits = [], types = [], slots = []
EmptyCur ==
  [props |-> <<>>, emits |-> <<>>, types |-> <<>>, slots |-> <<>>,
   composables |-> <<>>, subComponents |-> <<>>]

ComponentManifest(n, c) ==
  [name |-> n, pascalName |-> ToPascalCase(n), props |-> c.props,
   emits |-> c.emits, slots |-> c.slots, types |-> c.types,
   composables |-> c.composables, subComponents |-> c.subComponents]

ComponentPool ==
  <<ComponentOnDisk(<<"b", "u", "t", "t", "o", "n">>, "ok", "ok", <<>>, <<>>),
    ComponentOnDisk(<<"c", "a", "r", "d">>, "propsThrow", "ok", <<>>, <<>>),
    ComponentOnDisk(<<"i", "c", "o", "n", "s">>, "none", "none", <<>>, <<>>),
    PlainFile(<<"i", "n", "d", "e", "x", ".", "t", "s">>),
    ComponentOnDisk(<<"m", "o", "d", "a", "l">>, "typesThrow", "throw",
      <<ComposableFile(<<"u", "s", "e", "-", "m", "o", "d", "a", "l", ".", "t", "s">>, TRUE)>>, <<>>),
    ComponentOnDisk(<<"t", "a", "b", "l", "e">>, "ok", "ok",
      <<ComposableFile(<<"u", "s", "e", "-", "s", "o", "r", "t", ".", "t", "s">>, TRUE),
        ComposableFile(<<"u", "s", "e", "-", "t", "a", "b", "l", "e", ".", "t", "s">>, FALSE)>>,
      <<SubOnDisk(<<"t", "a", "b", "l", "e", "-", "a", "c", "t", "i", "o", "n", "s">>, TRUE, "ok", "ok")>>),
    ComponentOnDisk(<<"t", "a", "b", "s">>, "ok", "none", <<>>,
      <<SubOnDisk(<<"t", "a", "b", "-", "i", "t", "e", "m">>, TRUE, "throw", "ok"),
        SubOnDisk(<<"t", "a", "b", "-", "l", "i", "s", "t">>, TRUE, "ok", "throw"),
        SubOnDisk(<<"t", "a", "b", "-", "p", "a", "n", "e", "l">>, FALSE, "none", "ok")>>)>>

RECURSIVE ComponentListing(_)
ComponentListing(S) ==
  IF S = {} THEN <<>>
  ELSE <<ComponentPool[Min(S)]>> \o ComponentListing(S \ {Min(S)})

\* Explored components directories: up to MaxComponents entries of the
\* pool, in listing order
ComponentListings ==
  {ComponentListing(S) :
     S \in {T \in SUBSET (1..Len(ComponentPool)) :
              Cardinality(T) <= MaxComponents}}

InitManifest ==
  /\ componentsPath \in ComponentListings
  /\ componentDirs = <<>>
  /\ manPc = "start"
  /\ compIdx = 0
  /\ cur = EmptyCur
  /\ components = <<>>
  /\ SlotsIdle
  /\ PropsIdle
  /\ SubIdle
  /\ CacheIdle
  /\ ServerIdle
  /\ TokensIdle
  /\ FnIdle

IsDirectoryEntry(e) == e.isDirectory

\* componentDirs = readdirSync(componentsPath).filter(isDirectory)
ManStart ==
  /\ manPc = "start"
  /\ componentDirs' = SelectSeq(componentsPath, IsDirectoryEntry)
  /\ compIdx' = 1
  /\ manPc' = "ts"
  /\ UNCHANGED <<componentsPath, cur, components, notManVars>>

AtStep(step) == manPc = step /\ compIdx <= Len(componentDirs)

Component == componentDirs[compIdx]

Step(next, c) ==
  /\ manPc' = next
  /\ cur' = c
  /\ UNCHANGED <<componentsPath, componentDirs, compIdx, components,
                 notManVars>>

\* if (existsSync(tsFile)) is false
ManNoTs ==
  /\ AtStep("ts")
  /\ Component.ts = "none"
  /\ Step("vue", cur)

\* parseComponentProps and parseTypes both return
ManParsedTs ==
  /\ AtStep("ts")
  /\ Component.ts = "ok"
  /\ Step("vue", [cur EXCEPT !.props = Parsed("props", Component.name),
                             !.emits = Parsed("emits", Component.name),
                             !.types = Parsed("types", Component.name)])

\* parseComponentProps throws: nothing of the try block was assigned
ManPropsThrew ==
  /\ AtStep("ts")
  /\ Component.ts = "propsThrow"
  /\ Step(OnParseError("vue"), cur)

\* parseTypes throws after props and emits were assigned
ManTypesThrew ==
  /\ AtStep("ts")
  /\ Component.ts = "typesThrow"
  /\ Step(OnParseError("vue"),
          [cur EXCEPT !.props = Parsed("props", Component.name),
                      !.emits = Parsed("emits", Component.name)])

\* if (existsSync(vueFile)) is false
ManNoVue ==
  /\ AtStep("vue")
  /\ Component.vue = "none"
  /\ Step("composables", cur)

ManParsedVue ==
  /\ AtStep("vue")
  /\ Component.vue = "ok"
  /\ Step("composables", [cur EXCEPT !.slots = Parsed("slots", Component.name)])

ManSlotsThrew ==
  /\ AtStep("vue")
  /\ Component.vue = "throw"
  /\ Step(OnParseError("composables"), cur)

ManComposables ==
  /\ AtStep("composables")
  /\ Step("subs", [cur EXCEPT
                     !.composables = ParsedComposables(Component.composables)])

ManSubs ==
  /\ AtStep("subs")
  /\ Step("push", [cur EXCEPT
                     !.subComponents = SubComponentDetails(Component.subs)])

\* components.push({...}); the next iteration starts with fresh locals
ManPush ==
  /\ AtStep("push")
  /\ components' = Append(components, ComponentManifest(Component.name, cur))
  /\ compIdx' = compIdx + 1
  /\ cur' = EmptyCur
  /\ manPc' = "ts"
  /\ UNCHANGED <<componentsPath, componentDirs, notManVars>>

\* the loop over componentDirs is over
ManReturn ==
  /\ manPc = "ts"
  /\ compIdx > Len(componentDirs)
  /\ manPc' = "done"
  /\ UNCHANGED <<componentsPath, componentDirs, compIdx, cur, components,
                 notManVars>>

NextManifest ==
  \/ ManStart
  \/ ManNoTs
  \/ ManParsedTs
  \/ ManPropsThrew
  \/ ManTypesThrew
  \/ ManNoVue
  \/ ManParsedVue
  \/ ManSlotsThrew
  \/ ManComposables
  \/ ManSubs
  \/ ManPush
  \/ ManReturn

SpecManifest == InitManifest /\ [][NextManifest]_vars

----------------------------------------------------------------------------
(* Properties of buildManifest *)

\* the directories of the listing, in listing order
DirsOnDisk == SelectSeq(componentsPath, IsDirectoryEntry)

\* what one component directory contributes on its own: every field whose
\* parser ran and returned, the empty list for the others
OwnEntry(d) ==
  [name |-> d.name,
   pascalName |-> ToPascalCase(d.name),
   props |-> IF d.ts \in {"ok", "typesThrow"} THEN Parsed("props", d.name)
             ELSE <<>>,
   emits |-> IF d.ts \in {"ok", "typesThrow"} THEN Parsed("emits", d.name)
             ELSE <<>>,
   types |-> IF d.ts = "ok" THEN Parsed("types", d.name) ELSE <<>>,
   slots |-> IF d.vue = "ok" THEN Parsed("slots", d.name) ELSE <<>>,
   composables |-> ParsedComposables(d.composables),
   subComponents |-> SubComponentDetails(d.subs)]

\* C16: buildManifest completes whatever parsers throw; components holds
\* one entry per component directory in listing order, the fields a thrown
\* parse touched are empty in that component's entry, and every entry is
\* what its own directory gives, whatever failed in the others.
C16_ManifestSurvivesParserErrors ==
  /\ manPc # "crashed"
  /\ manPc = "done" =>
       /\ Len(components) = Len(DirsOnDisk)
       /\ \A i \in 1..Len(components) : components[i] = OwnEntry(DirsOnDisk[i])

C16_Witness ==
  /\ manPc = "done"
  /\ Len(components) = 2
  /\ DirsOnDisk[1].ts = "propsThrow"
  /\ components[1].props = <<>>
  /\ components[1].slots # <<>>
  /\ components[2].props # <<>>

----------------------------------------------------------------------------
(* The shared parse project (props-parser.ts getSharedProject, the first   *)
(* lines of parseComponentProps and of parseTypes)                         *)

\* the definition files the calls name
Paths == {"button.ts", "table.ts"}

NoFiles == [p \in {} |-> 0]

\* no parser call was answered yet
NoAnswer == [fn |-> "none", path |-> "", revision |-> 0]

\* let sharedProject: Project | null = null
NullProject == [created |-> FALSE, sourceFiles |-> NoFiles]

\* new Project({...}): a project holding no source file
NewProject == [created |-> TRUE, sourceFiles |-> NoFiles]

\* getSharedProject(): the project the call works with
GetSharedProject == IF ~sharedProject.created THEN NewProject ELSE sharedProject

NeverCached(project, path) == FALSE

\* project.getSourceFile(path) finds the file
HasSourceFile(project, path) == path \in DOMAIN project.sourceFiles

\* project.addSourceFileAtPath(path): the file is read from disk as it is now
AddSourceFileAtPath(project, path) ==
  [project EXCEPT !.sourceFiles =
     [p \in DOMAIN project.sourceFiles \cup {path} |->
        IF p = path THEN disk[path] ELSE project.sourceFiles[p]]]

\* the project after the first lines of a parser call for the path
ProjectAfterCall(path) ==
  IF HasSourceFile(GetSharedProject, path) THEN GetSharedProject
  ELSE AddSourceFileAtPath(GetSharedProject, path)

\* the revision on disk at the first call of the process, per path
FirstReadAfterCall(path) ==
  IF path \in DOMAIN firstRead THEN firstRead
  ELSE [p \in DOMAIN firstRead \cup {path} |->
          IF p = path THEN disk[path] ELSE firstRead[p]]

InitCache ==
  /\ sharedProject = NullProject
  /\ disk = [p \in Paths |-> 0]
  /\ projectsCreated = 0
  /\ fileReads = [p \in Paths |-> 0]
  /\ firstRead = NoFiles
  /\ answered = NoAnswer
  /\ restarts = 0
  /\ SlotsIdle
  /\ PropsIdle
  /\ SubIdle
  /\ ManIdle
  /\ ServerIdle
  /\ TokensIdle
  /\ FnIdle

\* parseComponentProps(path): the project, the source file, the answer
ParseComponentPropsCall ==
  \E path \in Paths :
    /\ sharedProject' = ProjectAfterCall(path)
    /\ projectsCreated' =
         IF ~sharedProject.created THEN projectsCreated + 1 ELSE projectsCreated
    /\ fileReads' =
         IF HasSourceFile(GetSharedProject, path) THEN fileReads
         ELSE [fileReads EXCEPT ![path] = @ + 1]
    /\ firstRead' = FirstReadAfterCall(path)
    /\ answered' = [fn |-> "parseComponentProps", path |-> path,
                    revision |-> ProjectAfterCall(path).sourceFiles[path]]
    /\ UNCHANGED <<disk, restarts, notCacheVars>>

\* parseTypes(path): the same first lines
ParseTypesCall ==
  \E path \in Paths :
    /\ sharedProject' = ProjectAfterCall(path)
    /\ projectsCreated' =
         IF ~sharedProject.created THEN projectsCreated + 1 ELSE projectsCreated
    /\ fileReads' =
         IF HasSourceFile(GetSharedProject, path) THEN fileReads
         ELSE [fileReads EXCEPT ![path] = @ + 1]
    /\ firstRead' = FirstReadAfterCall(path)
    /\ answered' = [fn |-> "parseTypes", path |-> path,
                    revision |-> ProjectAfterCall(path).sourceFiles[path]]
    /\ UNCHANGED <<disk, restarts, notCacheVars>>

\* the file is rewritten on disk while the process runs
EditFile ==
  \E path \in Paths :
    /\ disk[path] < MaxEdits
    /\ disk' = [disk EXCEPT ![path] = @ + 1]
    /\ UNCHANGED <<sharedProject, projectsCreated, fileReads, firstRead,
                   answered, restarts, notCacheVars>>

\* the process ends and a new one starts: module state is fresh
Restart ==
  /\ restarts < MaxRestarts
  /\ restarts' = restarts + 1
  /\ sharedProject' = NullProject
  /\ projectsCreated' = 0
  /\ fileReads' = [p \in Paths |-> 0]
  /\ firstRead' = NoFiles
  /\ answered' = NoAnswer
  /\ UNCHANGED <<disk, notCacheVars>>

NextCache ==
  \/ ParseComponentPropsCall
  \/ ParseTypesCall
  \/ EditFile
  \/ Restart

SpecCache == InitCache /\ [][NextCache]_vars

\* C17: within one process the shared project is created at most once and
\* every path is read at most once; each call, from either function, is
\* answered from the content read at the process's first call for that
\* path, whatever the file holds by then.
C17_ParsedOncePerPath ==
  /\ projectsCreated <= 1
  /\ \A p \in Paths : fileReads[p] <= 1
  /\ answered.fn # "none" => answered.revision = firstRead[answered.path]

\* a parseTypes answer that is older than the file on disk, first read by
\* parseComponentProps, and refreshed only by the restart before it
C17_Witness ==
  /\ answered.fn # "none"
  /\ answered.fn = "parseTypes"
  /\ answered.revision < disk[answered.path]
  /\ answered.revision > 0
  /\ restarts = 1

----------------------------------------------------------------------------
(* The tools/call handlers of index.ts                                     *)

\* paths are sequences of segments
DesignSystemPath == <<<<"n", "o", "d", "e", "_", "m", "o", "d", "u", "l", "e", "s">>, <<"d", "e", "s", "i", "g", "n", "-", "s", "y", "s", "t", "e", "m", "-", "n", "e", "x", "t">>>>

\* const componentsPath = join(designSystemPath, 'src', 'components')
ComponentsRoot == DesignSystemPath \o <<<<"s", "r", "c">>, <<"c", "o", "m", "p", "o", "n", "e", "n", "t", "s">>>>

\* const storesPath = join(designSystemPath, 'src', 'stores')
StoresPath == DesignSystemPath \o <<<<"s", "r", "c">>, <<"s", "t", "o", "r", "e", "s">>>>

\* the segments of a relative path, split at "/"
RECURSIVE SplitPath(_)
SplitPath(name) ==
  LET i == IndexOf(name, <<"/">>, 0)
  IN IF i = -1 THEN <<name>>
     ELSE <<Substring(name, 0, i)>> \o SplitPath(Substring(name, i + 1, Len(name)))

\* path.normalize: "" and "." are dropped, ".." leaves the directory
RECURSIVE Normalize(_, _)
Normalize(done, rest) ==
  IF rest = <<>> THEN done
  ELSE IF Head(rest) = <<>> \/ Head(rest) = <<".">> THEN Normalize(done, Tail(rest))
  ELSE IF Head(rest) = <<".", ".">>
       THEN Normalize(IF done = <<>> THEN done ELSE SubSeq(done, 1, Len(done) - 1),
                      Tail(rest))
  ELSE Normalize(Append(done, Head(rest)), Tail(rest))

\* path.join(dir, name)
JoinPath(dir, name) == Normalize(dir, SplitPath(name))

\* path.basename
BaseName(path) == IF path = <<>> THEN <<>> ELSE path[Len(path)]

\* getComponentNameFromPath
GetComponentNameFromPath(dirPath) == ToPascalCase(BaseName(dirPath))

\* two paths name the same file on the installed file system
SamePath(a, b) ==
  IF installed.caseSensitive THEN a = b
  ELSE /\ Len(a) = Len(b)
       /\ \A i \in 1..Len(a) : ToLowerCase(a[i]) = ToLowerCase(b[i])

ComponentPath(c) == Append(ComponentsRoot, c.dir)

\* the directories of the installed package and above it
Directories ==
  {SubSeq(ComponentsRoot, 1, n) : n \in 0..Len(ComponentsRoot)}
    \cup {ComponentPath(installed.components[i]) :
            i \in 1..Len(installed.components)}
    \cup (IF installed.stores.exists THEN {StoresPath} ELSE {})

\* the definition files in it
DefinitionFiles ==
  {Append(ComponentPath(installed.components[i]),
          installed.components[i].dir \o TsExt) :
     i \in {j \in 1..Len(installed.components) :
              installed.components[j].ts # "none"}}

\* fs.existsSync
ExistsSync(path) == \E p \in Directories \cup DefinitionFiles : SamePath(p, path)

\* the installed component a directory path leads to, if any
IsComponentDir(path) ==
  \E i \in 1..Len(installed.components) :
    SamePath(ComponentPath(installed.components[i]), path)

ComponentAt(path) ==
  installed.components[CHOOSE i \in 1..Len(installed.components) :
    SamePath(ComponentPath(installed.components[i]), path)]

\* getAllComponents(): the directory names under componentsPath
GetAllComponents == installed.components

NoValue == [name |-> <<>>, pascalName |-> <<>>, items |-> <<>>]

\* { content: [{ type: 'text', text }], isError: true }
ErrorResult(text) ==
  [outcome |-> "returned", isError |-> TRUE, text |-> text, value |-> NoValue]

\* { content: [{ type: 'text', text: JSON.stringify(value) }] }
Result(value) ==
  [outcome |-> "returned", isError |-> FALSE, text |-> <<>>, value |-> value]

\* the handler threw: the request is answered with a protocol error
Thrown ==
  [outcome |-> "thrown", isError |-> FALSE, text |-> <<>>, value |-> NoValue]

\* `Component "${componentName}" not found. Use list_components ...`
ComponentNotFound(componentName) ==
  <<"C", "o", "m", "p", "o", "n", "e", "n", "t", " ", "\"">> \o componentName
    \o <<"\"", " ", "n", "o", "t", " ", "f", "o", "u", "n", "d", ".", " ", "U", "s", "e", " ", "l", "i", "s", "t", "_", "c", "o", "m", "p", "o", "n", "e", "n", "t", "s", " ", "t", "o", " ", "s", "e", "e", " ", "a", "v", "a", "i", "l", "a", "b", "l", "e", " ", "c", "o", "m", "p", "o", "n", "e", "n", "t", "s", ".">>

NoStoresDirectory == <<"N", "o", " ", "s", "t", "o", "r", "e", "s", " ", "d", "i", "r", "e", "c", "t", "o", "r", "y", " ", "f", "o", "u", "n", "d", ".">>

RECURSIVE JoinComma(_)
JoinComma(ss) ==
  IF ss = <<>> THEN <<>>
  ELSE IF Len(ss) = 1 THEN ss[1]
  ELSE ss[1] \o <<",", " ">> \o JoinComma(Tail(ss))

StoreName(f) == RemoveFirst(f, TsExt)

StoreNames(files) == [i \in 1..Len(files) |-> StoreName(files[i])]

\* `Store "${storeName}" not found. Available stores: ...`
StoreNotFound(storeName, storeFiles) ==
  <<"S", "t", "o", "r", "e", " ", "\"">> \o storeName \o <<"\"", " ", "n", "o", "t", " ", "f", "o", "u", "n", "d", ".", " ", "A", "v", "a", "i", "l", "a", "b", "l", "e", " ", "s", "t", "o", "r", "e", "s", ":", " ">>
    \o JoinComma(StoreNames(storeFiles))

AtLeastOne == <<"A", "t", " ", "l", "e", "a", "s", "t", " ", "o", "n", "e", " ", "o", "f", " ", "p", "r", "o", "p", "N", "a", "m", "e", " ", "o", "r", " ", "p", "r", "o", "p", "T", "y", "p", "e", " ", "i", "s", " ", "r", "e", "q", "u", "i", "r", "e", "d", ".">>

\* component directories a package may hold, with what parseComponentProps
\* makes of the definition file
PropOf(n, t) == [name |-> n, type |-> t]

InstalledPool ==
  << [dir |-> <<"b", "u", "t", "t", "o", "n">>, ts |-> "parsed",
      props |-> <<PropOf(<<"d", "i", "s", "a", "b", "l", "e", "d">>, <<"b", "o", "o", "l", "e", "a", "n">>), PropOf(<<"s", "i", "z", "e">>, <<"s", "t", "r", "i", "n", "g">>)>>],
     [dir |-> <<"T", "a", "b", "s">>, ts |-> "parsed",
      props |-> <<PropOf(<<"m", "o", "d", "e", "l", "V", "a", "l", "u", "e">>, <<"s", "t", "r", "i", "n", "g">>)>>],
     [dir |-> <<"c", "a", "r", "d">>, ts |-> "throws", props |-> <<>>],
     [dir |-> <<"i", "c", "o", "n", "s">>, ts |-> "none", props |-> <<>>] >>

RECURSIVE InstalledListing(_)
InstalledListing(picks) ==
  IF picks = {} THEN <<>>
  ELSE <<InstalledPool[Min(picks)]>> \o InstalledListing(picks \ {Min(picks)})

StoreDirs ==
  { [exists |-> FALSE, files |-> <<>>],
    [exists |-> TRUE, files |-> <<>>],
    [exists |-> TRUE, files |-> <<<<"R", "E", "A", "D", "M", "E", ".", "m", "d">>, <<"u", "s", "e", "S", "n", "a", "c", "k", "b", "a", "r", "S", "t", "o", "r", "e", ".", "t", "s">>>>] }

Packages ==
  { [components |-> InstalledListing(picks), stores |-> s, caseSensitive |-> cs] :
      picks \in {ps \in SUBSET (1..Len(InstalledPool)) : Cardinality(ps) <= MaxInstalled},
      s \in StoreDirs, cs \in BOOLEAN }

\* request.params.arguments: undefined, or an object with some of the keys
Args(given, has, name, propName, propType) ==
  [given |-> given, has |-> has, name |-> name, propName |-> propName,
   propType |-> propType]

Undefined == Args(FALSE, {}, <<>>, <<>>, <<>>)

EmptyObject == Args(TRUE, {}, <<>>, <<>>, <<>>)

Named(n) == Args(TRUE, {"name"}, n, <<>>, <<>>)

ComponentNames ==
  { <<"b", "u", "t", "t", "o", "n">>, <<"B", "u", "t", "t", "o", "n">>, <<"B", "U", "T", "T", "O", "N">>, <<"t", "a", "b", "s">>, <<"T", "a", "b", "s">>, <<"c", "a", "r", "d">>, <<"I", "c", "o", "n", "s">>,
    <<"n", "o", "n", "e", "x", "i", "s", "t", "e", "n", "t">>, <<>>, <<".">>, <<".", ".">> }

NameArgs == {Undefined, EmptyObject} \cup {Named(n) : n \in ComponentNames}

StoreArgs ==
  {Undefined, EmptyObject}
    \cup {Named(n) : n \in { <<"u", "s", "e", "S", "n", "a", "c", "k", "b", "a", "r", "S", "t", "o", "r", "e">>, <<"u", "s", "e", "S", "n", "a", "c", "k", "b", "a", "r", "S", "t", "o", "r", "e", ".", "t", "s">>,
                             <<"R", "E", "A", "D", "M", "E", ".", "m", "d">>, <<"n", "o", "n", "e", "x", "i", "s", "t", "e", "n", "t">>, <<>> }}

PropArgs ==
  { Undefined, EmptyObject,
    Args(TRUE, {"propName"}, <<>>, <<"d", "i", "s", "a", "b", "l", "e", "d">>, <<>>),
    Args(TRUE, {"propName"}, <<>>, <<"V", "a", "l", "u", "e">>, <<>>),
    Args(TRUE, {"propName"}, <<>>, <<>>, <<>>),
    Args(TRUE, {"propType"}, <<>>, <<>>, <<"s", "t", "r", "i", "n", "g">>),
    Args(TRUE, {"propName", "propType"}, <<>>, <<"s", "i", "z", "e">>, <<"b", "o", "o", "l", "e", "a", "n">>),
    Args(TRUE, {"propName", "propType"}, <<>>, <<"s", "i", "z", "e">>, <<"S", "t", "r", "i", "n", "g">>) }

Request(tool, args) == [tool |-> tool, args |-> args]

NoRequest == Request("none", Undefined)

NoResponse ==
  [outcome |-> "none", isError |-> FALSE, text |-> <<>>, value |-> NoValue]

InitServer ==
  /\ installed \in Packages
  /\ request = NoRequest
  /\ response = NoResponse
  /\ examined = <<>>
  /\ SlotsIdle
  /\ PropsIdle
  /\ SubIdle
  /\ ManIdle
  /\ CacheIdle
  /\ TokensIdle
  /\ FnIdle

\* (args as { name: string }).name.toLowerCase() throws a TypeError
NameThrows(args) == ~args.given \/ "name" \notin args.has

\* the definition file a path leads to
IsDefinitionFile(path) == \E p \in DefinitionFiles : SamePath(p, path)

DefinitionAt(path) == ComponentAt(SubSeq(path, 1, Len(path) - 1))

\* case 'get_component', for a name that is a string
GetComponentResult(name) ==
  LET componentName == ToLowerCase(name)
      directory == JoinPath(ComponentsRoot, componentName)
      tsFile == JoinPath(directory, componentName \o TsExt)
  IN IF ~ExistsSync(directory) THEN ErrorResult(ComponentNotFound(componentName))
     ELSE IF IsDefinitionFile(tsFile) /\ DefinitionAt(tsFile).ts = "throws" THEN Thrown
     ELSE Result([name |-> componentName,
                  pascalName |-> GetComponentNameFromPath(directory),
                  items |-> IF IsDefinitionFile(tsFile)
                            THEN DefinitionAt(tsFile).props ELSE <<>>])

\* the files get_component hands to parseComponentProps
GetComponentExamined(name) ==
  LET componentName == ToLowerCase(name)
      directory == JoinPath(ComponentsRoot, componentName)
      tsFile == JoinPath(directory, componentName \o TsExt)
  IN IF ExistsSync(directory) /\ IsDefinitionFile(tsFile) THEN <<tsFile>> ELSE <<>>

GetComponent ==
  \E args \in NameArgs :
    /\ request' = Request("get_component", args)
    /\ response' = IF NameThrows(args) THEN Thrown ELSE GetComponentResult(args.name)
    /\ examined' = IF NameThrows(args) THEN <<>> ELSE GetComponentExamined(args.name)
    /\ UNCHANGED <<installed, notServerVars>>

IsPrefix(a, b) == Len(a) <= Len(b) /\ SamePath(a, SubSeq(b, 1, Len(a)))

\* readDirectoryRecursive(dir, ['.ts', '.vue']): the files below the directory
ReadDirectoryRecursive(dir) ==
  LET Below(c) == c.ts # "none" /\ IsPrefix(dir, ComponentPath(c))
      StoreBelow(f) == ExtName(f) = TsExt
      storeFiles == IF installed.stores.exists /\ IsPrefix(dir, StoresPath)
                    THEN SelectSeq(installed.stores.files, StoreBelow) ELSE <<>>
      files == SelectSeq(installed.components, Below)
  IN [i \in 1..Len(files) |-> files[i].dir \o TsExt] \o storeFiles

\* case 'get_component_source'
GetComponentSourceResult(name) ==
  LET componentName == ToLowerCase(name)
      directory == JoinPath(ComponentsRoot, componentName)
  IN IF ~ExistsSync(directory) THEN ErrorResult(ComponentNotFound(componentName))
     ELSE Result([name |-> componentName, pascalName |-> <<>>,
                  items |-> ReadDirectoryRecursive(directory)])

GetComponentSource ==
  \E args \in NameArgs :
    /\ request' = Request("get_component_source", args)
    /\ response' =
         IF NameThrows(args) THEN Thrown ELSE GetComponentSourceResult(args.name)
    /\ examined' = <<>>
    /\ UNCHANGED <<installed, notServerVars>>

\* !propName: the key is absent or its text is empty
Falsy(args, key) ==
  \/ key \notin args.has
  \/ (key = "propName" /\ args.propName = <<>>)
  \/ (key = "propType" /\ args.propType = <<>>)
  \/ (key = "name" /\ args.name = <<>>)

\* the filter callback of search_by_prop
PropMatches(args, p) ==
  /\ Falsy(args, "propName")
       \/ Includes(ToLowerCase(p.name), ToLowerCase(args.propName))
  /\ Falsy(args, "propType")
       \/ Includes(ToLowerCase(p.type), ToLowerCase(args.propType))

\* the loop of search_by_prop over getAllComponents()
RECURSIVE SearchMatches(_, _)
SearchMatches(args, rest) ==
  IF rest = <<>> THEN <<>>
  ELSE LET c == Head(rest)
           Matched(p) == PropMatches(args, p)
           matched == SelectSeq(c.props, Matched)
       IN (IF c.ts = "parsed" /\ matched # <<>>
           THEN << [component |-> c.dir,
                    pascalName |-> GetComponentNameFromPath(ComponentPath(c)),
                    matchedProps |-> matched] >>
           ELSE <<>>) \o SearchMatches(args, Tail(rest))

\* the definition files the loop hands to parseComponentProps
SearchExamined ==
  LET WithTs(c) == c.ts # "none"
      cs == SelectSeq(GetAllComponents, WithTs)
  IN [i \in 1..Len(cs) |-> Append(ComponentPath(cs[i]), cs[i].dir \o TsExt)]

\* case 'search_by_prop'
SearchByProp ==
  \E args \in PropArgs :
    /\ request' = Request("search_by_prop", args)
    /\ response' =
         IF ~args.given THEN Thrown
         ELSE IF Falsy(args, "propName") /\ Falsy(args, "propType")
         THEN ErrorResult(AtLeastOne)
         ELSE Result([name |-> <<>>, pascalName |-> <<>>,
                      items |-> SearchMatches(args, GetAllComponents)])
    /\ examined' =
         IF ~args.given \/ (Falsy(args, "propName") /\ Falsy(args, "propType"))
         THEN <<>> ELSE SearchExamined
    /\ UNCHANGED <<installed, notServerVars>>

\* storeFiles.find(f => f.replace('.ts', '') === storeName || ...)
StoreFileMatches(f, storeName) ==
  StoreName(f) = storeName \/ f = storeName \/ f = storeName \o TsExt

\* case 'get_store'
GetStoreResult(args) ==
  LET IsTs(f) == ExtName(f) = TsExt
      storeFiles == SelectSeq(installed.stores.files, IsTs)
      Found(f) == StoreFileMatches(f, args.name)
      found == SelectSeq(storeFiles, Found)
  IN IF ~installed.stores.exists THEN ErrorResult(NoStoresDirectory)
     ELSE IF ~Falsy(args, "name")
     THEN IF found = <<>> THEN ErrorResult(StoreNotFound(args.name, storeFiles))
          ELSE Result([name |-> StoreName(found[1]), pascalName |-> found[1],
                       items |-> <<>>])
     ELSE Result([name |-> <<>>, pascalName |-> <<>>, items |-> StoreNames(storeFiles)])

GetStore ==
  \E args \in StoreArgs :
    /\ request' = Request("get_store", args)
    /\ response' = GetStoreResult(args)
    /\ examined' = <<>>
    /\ UNCHANGED <<installed, notServerVars>>

NextServer ==
  \/ GetComponent
  \/ GetComponentSource
  \/ SearchByProp
  \/ GetStore

SpecServer == InitServer /\ [][NextServer]_vars

----------------------------------------------------------------------------
(* Claims about the tools/call handlers                                    *)

\* the request carries a name that is a string
AsksByName(tool) ==
  request.tool = tool /\ request.args.given /\ "name" \in request.args.has

\* the installed components whose name the text is a case variant of
VariantsOf(name) ==
  {i \in 1..Len(installed.components) :
     ToLowerCase(installed.components[i].dir) = ToLowerCase(name)}

\* C18: get_component with any upper/lower-case variant of an existing
\* component name n answers as get_component(n) does: it succeeds and the
\* returned name is the lowercase n.
C18_CaseInsensitiveGetComponent ==
  AsksByName("get_component") =>
    \A i \in VariantsOf(request.args.name) :
      /\ response = GetComponentResult(installed.components[i].dir)
      /\ response.outcome = "returned"
      /\ ~response.isError
      /\ response.value.name = ToLowerCase(installed.components[i].dir)

NotFoundText == <<"n", "o", "t", " ", "f", "o", "u", "n", "d">>

\* the store files the name stands for
StoresNamed(name) ==
  {i \in 1..Len(installed.stores.files) :
     /\ ExtName(installed.stores.files[i]) = TsExt
     /\ StoreFileMatches(installed.stores.files[i], name)}

\* the request names a component or a store that is not installed
AsksForMissing ==
  \/ /\ AsksByName("get_component") \/ AsksByName("get_component_source")
     /\ VariantsOf(request.args.name) = {}
  \/ /\ AsksByName("get_store")
     /\ request.args.name # <<>>
     /\ StoresNamed(request.args.name) = {}

\* C19: a request for a component (get_component, get_component_source) or
\* a named store that does not exist is answered by a returned result with
\* isError true whose text contains "not found"; it is never thrown.
C19_NotFoundIsErrorResult ==
  AsksForMissing =>
    /\ response.outcome = "returned"
    /\ response.isError
    /\ Includes(response.text, NotFoundText)

AtLeastOneText == <<"A", "t", " ", "l", "e", "a", "s", "t", " ", "o", "n", "e">>

\* C20: search_by_prop with neither propName nor propType supplied returns
\* an error result whose text contains "At least one" and examines no
\* component; with at least one of them it returns a non-error result.
C20_SearchByPropNeedsArgument ==
  request.tool = "search_by_prop" =>
    /\ response.outcome = "returned"
    /\ IF request.args.has \cap {"propName", "propType"} = {}
       THEN /\ response.isError
            /\ Includes(response.text, AtLeastOneText)
            /\ examined = <<>>
       ELSE ~response.isError

----------------------------------------------------------------------------
(* The token extractors (token-parser.ts) and case 'get_tokens'            *)

Digits == <<"0", "1", "2", "3", "4", "5", "6", "7", "8", "9">>

DigitChar == {Digits[k] : k \in 1..10}

\* [A-Fa-f0-9]
HexChar == DigitChar \cup {"a", "b", "c", "d", "e", "f", "A", "B", "C", "D", "E", "F"}

\* parseInt of a run of decimal digits
RECURSIVE ParseInt(_)
ParseInt(text) ==
  IF text = <<>> THEN 0
  ELSE 10 * ParseInt(SubSeq(text, 1, Len(text) - 1))
         + (CHOOSE k \in 0..9 : Digits[k + 1] = text[Len(text)])

NoGroup == [ok |-> FALSE, first |-> <<>>, second |-> <<>>, end |-> 0]

\* the key of an entry at i: '([^']+)' , (\w+) or (\d+); then the colon
KeyAt(s, i, kind) ==
  IF kind = "quoted"
  THEN LET n == RunLenNot(s, i + 1, {"'"})
       IN IF HasAt(s, i) /\ At(s, i) = "'" /\ n >= 1 /\ HasAt(s, i + 1 + n)
             /\ HasAt(s, i + 2 + n) /\ At(s, i + 2 + n) = ":"
          THEN [ok |-> TRUE, first |-> Substring(s, i + 1, i + 1 + n),
                second |-> <<>>, end |-> i + 3 + n]
          ELSE NoGroup
  ELSE LET n == RunLen(s, i, IF kind = "word" THEN WordChar ELSE DigitChar)
       IN IF n >= 1 /\ HasAt(s, i + n) /\ At(s, i + n) = ":"
          THEN [ok |-> TRUE, first |-> Substring(s, i, i + n),
                second |-> <<>>, end |-> i + n + 1]
          ELSE NoGroup

\* the value of an entry after \s*: '([^']+)' , \{([^}]+)\} or '(#[A-Fa-f0-9]+)'
ValueAt(s, i, kind) ==
  LET v == i + RunLen(s, i, Space)
  IN IF kind = "quoted"
     THEN LET n == RunLenNot(s, v + 1, {"'"})
          IN IF HasAt(s, v) /\ At(s, v) = "'" /\ n >= 1 /\ HasAt(s, v + 1 + n)
             THEN [ok |-> TRUE, first |-> <<>>,
                   second |-> Substring(s, v + 1, v + 1 + n), end |-> v + 2 + n]
             ELSE NoGroup
     ELSE IF kind = "braces"
     THEN LET n == RunLenNot(s, v + 1, {"}"})
          IN IF HasAt(s, v) /\ At(s, v) = "{" /\ n >= 1 /\ HasAt(s, v + 1 + n)
             THEN [ok |-> TRUE, first |-> <<>>,
                   second |-> Substring(s, v + 1, v + 1 + n), end |-> v + 2 + n]
             ELSE NoGroup
     ELSE LET n == RunLen(s, v + 2, HexChar)
          IN IF HasAt(s, v) /\ At(s, v) = "'" /\ HasAt(s, v + 1)
                /\ At(s, v + 1) = "#" /\ n >= 1 /\ HasAt(s, v + 2 + n)
                /\ At(s, v + 2 + n) = "'"
             THEN [ok |-> TRUE, first |-> <<>>,
                   second |-> Substring(s, v + 1, v + 2 + n), end |-> v + 3 + n]
             ELSE NoGroup

\* one match of a key/value regex at position i
EntryAt(s, i, keyKind, valueKind) ==
  LET k == KeyAt(s, i, keyKind)
  IN IF ~k.ok THEN NoGroup
     ELSE LET v == ValueAt(s, k.end, valueKind)
          IN IF ~v.ok THEN NoGroup
             ELSE [ok |-> TRUE, first |-> k.first, second |-> v.second, end |-> v.end]

\* the element of a one-element set
The(S) == CHOOSE r \in S : TRUE

\* while ((m = regex.exec(text)) !== null): the matches from position `from` on
RECURSIVE ExecAll(_, _, _, _)
ExecAll(s, from, keyKind, valueKind) ==
  LET Hit(t, i) == EntryAt(t, i, keyKind, valueKind).ok
  IN The({ IF at = -1 THEN <<>>
           ELSE The({ <<[name |-> m.first, value |-> m.second]>>
                        \o ExecAll(s, m.end, keyKind, valueKind) :
                      m \in {EntryAt(s, at, keyKind, valueKind)} }) :
           at \in {FirstFrom(s, from, Hit)} })

ConstLit == <<"c", "o", "n", "s", "t">>

BodyCloseLit == <<"\n", "}", ";">>

\* content.match(/const\s+NAME[^=]*=\s*\{([\s\S]*?)\n\};/) at position i
ConstBodyAt(s, i, constName) ==
  LET ws == RunLen(s, i + 5, Space)
      n == i + 5 + ws + Len(constName)
      eq == n + RunLenNot(s, n, {"="})
      open == eq + 1 + RunLen(s, eq + 1, Space)
      close == IndexOf(s, BodyCloseLit, open + 1)
  IN IF /\ StartsAt(s, i, ConstLit)
        /\ ws >= 1
        /\ StartsAt(s, i + 5 + ws, constName)
        /\ HasAt(s, eq)
        /\ HasAt(s, open)
        /\ At(s, open) = "{"
        /\ close # -1
     THEN [ok |-> TRUE, first |-> Substring(s, open + 1, close), second |-> <<>>,
           end |-> close + Len(BodyCloseLit)]
     ELSE NoGroup

\* the first match of the const-object regex in the content
ConstBody(text, constName) ==
  LET Hit(t, i) == ConstBodyAt(t, i, constName).ok
      at == FirstFrom(text, 0, Hit)
  IN IF at = -1 THEN NoGroup ELSE ConstBodyAt(text, at, constName)

\* the last of the matches that has the key of match k
LastWithKey(keys, k) ==
  CHOOSE j \in k..Len(keys) :
    keys[j] = keys[k] /\ \A i \in (j + 1)..Len(keys) : keys[i] # keys[k]

\* shades[parseInt(m[1])] = m[2]: a later match replaces an earlier one
Shades(shadesBody) ==
  The({ The({ [key \in {keys[k] : k \in 1..Len(ms)} |->
                 ms[LastWithKey(keys, CHOOSE k \in 1..Len(ms) : keys[k] = key)].value] :
              keys \in {[k \in 1..Len(ms) |-> ParseInt(ms[k].name)]} }) :
        ms \in {ExecAll(shadesBody, 0, "digits", "hex")} })

\* properties[m[1]] = m[2]: a later match replaces an earlier one
Properties(body) ==
  The({ The({ [key \in {keys[k] : k \in 1..Len(ms)} |->
                 ms[LastWithKey(keys, CHOOSE k \in 1..Len(ms) : keys[k] = key)].value] :
              keys \in {[k \in 1..Len(ms) |-> ms[k].name]} }) :
        ms \in {ExecAll(body, 0, "word", "quoted")} })

TokenFileAlways(file) == TRUE

\* existsSync(join(assetsPath, 'scripts', file))
TokenFileExists(file) == assets[file].exists

\* what an extractor hands back: its list, or the exception it let through
Extracted(list) == [outcome |-> "returned", value |-> list]

ReadThrew == [outcome |-> "thrown", value |-> <<>>]

\* readFileSync of a file that is not there throws
ReadFileThrows(file) == ~assets[file].exists

\* the name/value tokens of a const object: spacing, border-radius, max-width
ParseTable(file, constName, keyKind) ==
  IF ~TokenFileExists(file) THEN Extracted(<<>>)
  ELSE IF ReadFileThrows(file) THEN ReadThrew
  ELSE The({ IF ~body.ok THEN Extracted(<<>>)
             ELSE Extracted(ExecAll(body.first, 0, keyKind, "quoted")) :
             body \in {ConstBody(assets[file].content, constName)} })

\* parseColors
ParseColors ==
  IF ~TokenFileExists("colors.ts") THEN Extracted(<<>>)
  ELSE IF ReadFileThrows("colors.ts") THEN ReadThrew
  ELSE The({ IF ~body.ok THEN Extracted(<<>>)
             ELSE The({ Extracted([k \in 1..Len(families) |->
                                     [name |-> families[k].name,
                                      shades |-> Shades(families[k].value)]]) :
                        families \in {ExecAll(body.first, 0, "word", "braces")} }) :
             body \in {ConstBody(assets["colors.ts"].content, <<"c", "o", "l", "o", "r", "S", "c", "h", "e", "m", "e">>)} })

\* parseSpacing
ParseSpacing == ParseTable("spacing.ts", <<"s", "p", "a", "c", "i", "n", "g">>, "quoted")

\* parseBorderRadius
ParseBorderRadius == ParseTable("border-radius.ts", <<"b", "o", "r", "d", "e", "r", "R", "a", "d", "i", "u", "s">>, "quoted")

\* parseMaxWidth
ParseMaxWidth == ParseTable("max-width.ts", <<"m", "a", "x", "W", "i", "d", "t", "h">>, "word")

\* parseUtilities
ParseUtilities ==
  IF ~TokenFileExists("utilities.ts") THEN Extracted(<<>>)
  ELSE IF ReadFileThrows("utilities.ts") THEN ReadThrew
  ELSE The({ Extracted([k \in 1..Len(entries) |->
                          [name |-> entries[k].name,
                           properties |-> Properties(entries[k].value)]]) :
             entries \in {ExecAll(assets["utilities.ts"].content, 0, "quoted", "braces")} })

\* getAllTokens
GetAllTokens ==
  The({ IF \E k \in DOMAIN t : t[k].outcome = "thrown" THEN ReadThrew
        ELSE Extracted([k \in DOMAIN t |-> t[k].value]) :
        t \in {[colors |-> ParseColors,
                 spacing |-> ParseSpacing,
                 borderRadius |-> ParseBorderRadius,
                 maxWidth |-> ParseMaxWidth,
                 utilities |-> ParseUtilities]} })

TokenFiles ==
  {"colors.ts", "spacing.ts", "border-radius.ts", "max-width.ts", "utilities.ts"}

MissingFile == [exists |-> FALSE, content |-> <<>>]

File(text) == [exists |-> TRUE, content |-> text]

\* contents a token file may have
FileContents(file) ==
  IF file = "colors.ts"
  THEN { <<"c", "o", "n", "s", "t", " ", "c", "o", "l", "o", "r", "S", "c", "h", "e", "m", "e", " ", "=", " ", "{", "\n", " ", "a", ":", " ", "{", " ", "5", "0", ":", " ", "'", "#", "F", "F", "F", "'", ",", " ", "0", "5", "0", ":", " ", "'", "#", "0", "a", "0", "'", " ", "}", ",", "\n", "}", ";">>,
         <<"e", "x", "p", "o", "r", "t", " ", "{", "}", ";">> }
  ELSE IF file = "spacing.ts"
  THEN { <<"c", "o", "n", "s", "t", " ", "s", "p", "a", "c", "i", "n", "g", " ", "=", " ", "{", "\n", " ", "'", "1", "'", ":", " ", "'", "4", "p", "x", "'", ",", "\n", " ", "'", "2", "'", ":", "'", "8", "p", "x", "'", ",", "\n", "}", ";">> }
  ELSE IF file = "border-radius.ts"
  THEN { <<"c", "o", "n", "s", "t", " ", "b", "o", "r", "d", "e", "r", "R", "a", "d", "i", "u", "s", ":", " ", "R", " ", "=", " ", "{", "\n", " ", "'", "m", "d", "'", ":", " ", "'", "6", "p", "x", "'", ",", "\n", "}", ";">> }
  ELSE IF file = "max-width.ts"
  THEN { <<"c", "o", "n", "s", "t", " ", "m", "a", "x", "W", "i", "d", "t", "h", " ", "=", " ", "{", "\n", " ", "s", "m", ":", " ", "'", "1", "0", "p", "x", "'", ",", "\n", "}", ";">> }
  ELSE { <<"u", " ", "=", " ", "{", "\n", " ", "'", "f", "l", "e", "x", "'", ":", " ", "{", " ", "d", "i", "s", "p", "l", "a", "y", ":", " ", "'", "f", "l", "e", "x", "'", " ", "}", ",", "\n", "}", ";">> }

AssetDirs ==
  { a \in [TokenFiles -> {MissingFile} \cup UNION {{File(c) : c \in FileContents(f)} : f \in TokenFiles}] :
      \A f \in TokenFiles : a[f].exists => a[f].content \in FileContents(f) }

NoCall == [fn |-> "none", args |-> Undefined]

NoTokens == [outcome |-> "none", isError |-> FALSE, text |-> <<>>, value |-> <<>>]

InitTokens ==
  /\ assets \in AssetDirs
  /\ tokenCall = NoCall
  /\ tokenResult = NoTokens
  /\ SlotsIdle
  /\ PropsIdle
  /\ SubIdle
  /\ ManIdle
  /\ CacheIdle
  /\ ServerIdle
  /\ FnIdle

\* the outcome of an extractor call as the caller sees it
Outcome(r) ==
  [outcome |-> r.outcome, isError |-> FALSE, text |-> <<>>, value |-> r.value]

ParseColorsCall ==
  /\ tokenCall' = [fn |-> "parseColors", args |-> Undefined]
  /\ tokenResult' = Outcome(ParseColors)
  /\ UNCHANGED <<assets, notTokenVars>>

ParseSpacingCall ==
  /\ tokenCall' = [fn |-> "parseSpacing", args |-> Undefined]
  /\ tokenResult' = Outcome(ParseSpacing)
  /\ UNCHANGED <<assets, notTokenVars>>

ParseBorderRadiusCall ==
  /\ tokenCall' = [fn |-> "parseBorderRadius", args |-> Undefined]
  /\ tokenResult' = Outcome(ParseBorderRadius)
  /\ UNCHANGED <<assets, notTokenVars>>

ParseMaxWidthCall ==
  /\ tokenCall' = [fn |-> "parseMaxWidth", args |-> Undefined]
  /\ tokenResult' = Outcome(ParseMaxWidth)
  /\ UNCHANGED <<assets, notTokenVars>>

ParseUtilitiesCall ==
  /\ tokenCall' = [fn |-> "parseUtilities", args |-> Undefined]
  /\ tokenResult' = Outcome(ParseUtilities)
  /\ UNCHANGED <<assets, notTokenVars>>

GetAllTokensCall ==
  /\ tokenCall' = [fn |-> "getAllTokens", args |-> Undefined]
  /\ tokenResult' = Outcome(GetAllTokens)
  /\ UNCHANGED <<assets, notTokenVars>>

\* { type: t }, the text kept in the record's name field
Typed(t) == Args(TRUE, {"type"}, t, <<>>, <<>>)

\* request.params.arguments of get_tokens
TypeArgs ==
  {Undefined, EmptyObject}
    \cup {Typed(t) : t \in { <<"c", "o", "l", "o", "r", "s">>, <<"s", "p", "a", "c", "i", "n", "g">>, <<"r", "a", "d", "i", "u", "s">>, <<"m", "a", "x", "W", "i", "d", "t", "h">>,
                             <<"u", "t", "i", "l", "i", "t", "i", "e", "s">>, <<"a", "l", "l">>, <<"C", "o", "l", "o", "r", "s">>, <<"m", "a", "x", "w", "i", "d", "t", "h">>,
                             <<"b", "o", "r", "d", "e", "r", "R", "a", "d", "i", "u", "s">>, <<"i", "n", "v", "a", "l", "i", "d">>, <<>> }}

CaseMatchesAnyCase(tokenType, label) == ToLowerCase(tokenType) = ToLowerCase(label)

\* case 'colors': the switch compares with ===
CaseMatches(tokenType, label) == tokenType = label

\* `Invalid token type "${tokenType}". Use one of: ...`
InvalidTokenType(tokenType) ==
  <<"I", "n", "v", "a", "l", "i", "d", " ", "t", "o", "k", "e", "n", " ", "t", "y", "p", "e", " ", "\"">> \o tokenType
    \o <<"\"", ".", " ", "U", "s", "e", " ", "o", "n", "e", " ", "o", "f", ":", " ", "c", "o", "l", "o", "r", "s", ",", " ", "s", "p", "a", "c", "i", "n", "g", ",", " ", "r", "a", "d", "i", "u", "s", ",", " ", "m", "a", "x", "W", "i", "d", "t", "h", ",", " ", "u", "t", "i", "l", "i", "t", "i", "e", "s", ",", " ", "a", "l", "l">>

\* `${undefined}`
UndefinedText == <<"u", "n", "d", "e", "f", "i", "n", "e", "d">>

\* the switch of get_tokens over a type that is a string
TokensOfType(tokenType) ==
  IF CaseMatches(tokenType, <<"c", "o", "l", "o", "r", "s">>) THEN ParseColors
  ELSE IF CaseMatches(tokenType, <<"s", "p", "a", "c", "i", "n", "g">>) THEN ParseSpacing
  ELSE IF CaseMatches(tokenType, <<"r", "a", "d", "i", "u", "s">>) THEN ParseBorderRadius
  ELSE IF CaseMatches(tokenType, <<"m", "a", "x", "W", "i", "d", "t", "h">>) THEN ParseMaxWidth
  ELSE IF CaseMatches(tokenType, <<"u", "t", "i", "l", "i", "t", "i", "e", "s">>) THEN ParseUtilities
  ELSE IF CaseMatches(tokenType, <<"a", "l", "l">>) THEN GetAllTokens
  ELSE [outcome |-> "default", value |-> <<>>]

\* case 'get_tokens'
GetTokensResult(args) ==
  IF ~args.given THEN Thrown
  ELSE IF "type" \notin args.has THEN ErrorResult(InvalidTokenType(UndefinedText))
  ELSE LET r == TokensOfType(args.name)
       IN IF r.outcome = "default" THEN ErrorResult(InvalidTokenType(args.name))
          ELSE IF r.outcome = "thrown" THEN Thrown
          ELSE Result(r.value)

GetTokens ==
  \E args \in TypeArgs :
    /\ tokenCall' = [fn |-> "get_tokens", args |-> args]
    /\ tokenResult' = GetTokensResult(args)
    /\ UNCHANGED <<assets, notTokenVars>>

NextTokens ==
  \/ ParseColorsCall
  \/ ParseSpacingCall
  \/ ParseBorderRadiusCall
  \/ ParseMaxWidthCall
  \/ ParseUtilitiesCall
  \/ GetAllTokensCall
  \/ GetTokens

SpecTokens == InitTokens /\ [][NextTokens]_vars

----------------------------------------------------------------------------
(* Claims about the token extractors and get_tokens                        *)

\* the six type strings get_tokens names
TokenTypes ==
  { <<"c", "o", "l", "o", "r", "s">>, <<"s", "p", "a", "c", "i", "n", "g">>, <<"r", "a", "d", "i", "u", "s">>, <<"m", "a", "x", "W", "i", "d", "t", "h">>, <<"u", "t", "i", "l", "i", "t", "i", "e", "s">>, <<"a", "l", "l">> }

InvalidTokenTypeText == <<"I", "n", "v", "a", "l", "i", "d", " ", "t", "o", "k", "e", "n", " ", "t", "y", "p", "e">>

\* get_tokens was asked with a type that is a string
AskedTokens == tokenCall.fn = "get_tokens" /\ "type" \in tokenCall.args.has

\* C21: get_tokens returns an error result whose text contains "Invalid
\* token type" for every type string outside the six known ones, and a
\* non-error result for each of the six.
C21_InvalidTokenType ==
  AskedTokens =>
    /\ tokenResult.outcome = "returned"
    /\ IF tokenCall.args.name \in TokenTypes
       THEN ~tokenResult.isError
       ELSE /\ tokenResult.isError
            /\ Includes(tokenResult.text, InvalidTokenTypeText)

\* a type that differs from a known one only in case is refused
C21_Witness ==
  /\ AskedTokens
  /\ tokenCall.args.name \notin TokenTypes
  /\ ToLowerCase(tokenCall.args.name) \in TokenTypes
  /\ tokenResult.isError

\* the extractor and the category of getAllTokens that belong to a file
ExtractorOf(file) ==
  IF file = "colors.ts" THEN "parseColors"
  ELSE IF file = "spacing.ts" THEN "parseSpacing"
  ELSE IF file = "border-radius.ts" THEN "parseBorderRadius"
  ELSE IF file = "max-width.ts" THEN "parseMaxWidth"
  ELSE "parseUtilities"

CategoryOf(file) ==
  IF file = "colors.ts" THEN "colors"
  ELSE IF file = "spacing.ts" THEN "spacing"
  ELSE IF file = "border-radius.ts" THEN "borderRadius"
  ELSE IF file = "max-width.ts" THEN "maxWidth"
  ELSE "utilities"

OwnResult(file) ==
  IF file = "colors.ts" THEN ParseColors
  ELSE IF file = "spacing.ts" THEN ParseSpacing
  ELSE IF file = "border-radius.ts" THEN ParseBorderRadius
  ELSE IF file = "max-width.ts" THEN ParseMaxWidth
  ELSE ParseUtilities

\* C22: an extractor whose token file is missing returns the empty list
\* without an error, and getAllTokens then still returns every category as
\* its own extractor returns it, the missing one empty.
C22_MissingFileEmptyCategory ==
  \A file \in TokenFiles :
    /\ (tokenCall.fn = ExtractorOf(file) /\ ~assets[file].exists) =>
         tokenResult.outcome = "returned" /\ tokenResult.value = <<>>
    /\ tokenCall.fn = "getAllTokens" =>
         /\ tokenResult.outcome = "returned"
         /\ ~assets[file].exists => tokenResult.value[CategoryOf(file)] = <<>>
         /\ tokenResult.value[CategoryOf(file)] = OwnResult(file).value

\* getAllTokens with one file missing and the four other categories filled
C22_Witness ==
  /\ tokenCall.fn = "getAllTokens"
  /\ Cardinality({f \in TokenFiles : ~assets[f].exists}) = 1
  /\ Cardinality({f \in TokenFiles : tokenResult.value[CategoryOf(f)] # <<>>}) = 4

----------------------------------------------------------------------------
(* toPascalCase (utils.ts) and getComponentNameFromPath (props-parser.ts)  *)
(* as functions of a text                                                  *)

\* path.basename: trailing separators dropped, then the text after the last one
RECURSIVE DropTrailingSlashes(_)
DropTrailingSlashes(text) ==
  IF text # <<>> /\ text[Len(text)] = "/"
  THEN DropTrailingSlashes(SubSeq(text, 1, Len(text) - 1))
  ELSE text

PathBasename(dirPath) ==
  LET p == DropTrailingSlashes(dirPath)
      slashes == {i \in 1..Len(p) : p[i] = "/"}
  IN IF slashes = {} THEN p
     ELSE SubSeq(p, (CHOOSE i \in slashes : \A j \in slashes : j <= i) + 1, Len(p))

\* getComponentNameFromPath on the text of a directory path
ComponentNameFromPath(dirPath) == ToPascalCase(PathBasename(dirPath))

NameChars == {"a", "B", "-", "/"}

\* the texts of at most MaxLen characters
NameTexts == UNION {[1..n -> NameChars] : n \in 0..MaxLen}

NoFn == [fn |-> "none", input |-> <<>>]

InitPascal ==
  /\ fnCall = NoFn
  /\ fnResult = <<>>
  /\ SlotsIdle
  /\ PropsIdle
  /\ SubIdle
  /\ ManIdle
  /\ CacheIdle
  /\ ServerIdle
  /\ TokensIdle

ToPascalCaseCall ==
  \E kebab \in NameTexts :
    /\ fnCall' = [fn |-> "toPascalCase", input |-> kebab]
    /\ fnResult' = ToPascalCase(kebab)
    /\ UNCHANGED notFnVars

GetComponentNameFromPathCall ==
  \E dirPath \in NameTexts :
    /\ fnCall' = [fn |-> "getComponentNameFromPath", input |-> dirPath]
    /\ fnResult' = ComponentNameFromPath(dirPath)
    /\ UNCHANGED notFnVars

NextPascal ==
  \/ ToPascalCaseCall
  \/ GetComponentNameFromPathCall

SpecPascal == InitPascal /\ [][NextPascal]_vars

\* the characters of s that are no '-', the first of every segment upper-cased
SegmentsCapitalized(s) ==
  LET kept == {i \in 1..Len(s) : s[i] # "-"}
      Nth(n) == CHOOSE i \in kept : Cardinality({j \in kept : j < i}) = n - 1
  IN [n \in 1..Cardinality(kept) |->
        IF Nth(n) = 1 \/ s[Nth(n) - 1] = "-" THEN ToUpperChar(s[Nth(n)])
        ELSE s[Nth(n)]]

\* the text after the last '/' that is followed by something other than '/'
LastSegment(dir) ==
  LET ends == {i \in 1..Len(dir) : dir[i] # "/"}
      last == CHOOSE i \in ends : \A j \in ends : j <= i
      starts == {i \in 1..last : \A j \in i..last : dir[j] # "/"}
  IN IF ends = {} THEN <<>>
     ELSE SubSeq(dir, CHOOSE i \in starts : \A j \in starts : i <= j, last)

\* C23: toPascalCase(s) is the concatenation of the '-'-separated segments
\* of s with the first character of each upper-cased and the rest unchanged
\* ('' gives ''), and getComponentNameFromPath(dir) is toPascalCase of the
\* last path segment of dir.
C23_PascalCaseOfSegments ==
  /\ fnCall.fn = "toPascalCase" => fnResult = SegmentsCapitalized(fnCall.input)
  /\ fnCall.fn = "getComponentNameFromPath" =>
       fnResult = SegmentsCapitalized(LastSegment(fnCall.input))

\* a name of two segments of which the second starts in lower case
C23_Witness ==
  /\ fnCall.fn = "toPascalCase"
  /\ fnCall.input = <<"B", "-", "a">>
  /\ fnResult = <<"B", "A">>

----------------------------------------------------------------------------
(* generateUsageExample (utils.ts)                                         *)

\* a PropDefinition as generateUsageExample reads it; an absent default or
\* validValues is undefined
ExampleProp(n, t, hasDefault, hasValues, values) ==
  [name |-> n, type |-> t, hasDefault |-> hasDefault, hasValues |-> hasValues,
   validValues |-> values]

\* a SlotDefinition
ExampleSlot(n, scoped, scopeProps) ==
  [name |-> n, scoped |-> scoped, scopeProps |-> scopeProps]

SliceAll(list, n) == list

\* list.slice(0, n)
Slice(list, n) == SubSeq(list, 1, IF Len(list) < n THEN Len(list) ELSE n)

\* list.join(sep)
RECURSIVE Join(_, _)
Join(list, sep) ==
  IF list = <<>> THEN <<>>
  ELSE IF Len(list) = 1 THEN list[1]
  ELSE list[1] \o sep \o Join(Tail(list), sep)

BooleanTag == <<"b", "o", "o", "l", "e", "a", "n">>

\* p => !p.default || p.validValues
PassesFilter(p) == ~p.hasDefault \/ p.hasValues

\* the map callback: the attribute text, or null (here the empty text)
AttributeOf(p) ==
  IF p.type = BooleanTag THEN p.name
  ELSE IF p.hasValues /\ Len(p.validValues) > 0
  THEN p.name \o <<"=", "\"">> \o p.validValues[1] \o <<"\"">>
  ELSE IF p.type = StringTag THEN p.name \o <<"=", "\"", "e", "x", "a", "m", "p", "l", "e", "\"">>
  ELSE <<>>

\* .filter(Boolean): null and '' are dropped
Truthy(text) == text # <<>>

\* propsStr
PropsStr(propList) ==
  LET kept == Slice(SelectSeq(propList, PassesFilter), 3)
      mapped == [i \in 1..Len(kept) |-> AttributeOf(kept[i])]
  IN Join(SelectSeq(mapped, Truthy), <<" ">>)

IsDefaultSlot(s) == s.name = DefaultName

IsNamedSlot(s) == s.name # DefaultName

\* the slotLines entry of a named slot
NamedSlotLine(s) ==
  IF s.scoped /\ Len(s.scopeProps) > 0
  THEN <<" ", " ", " ", " ", "<", "t", "e", "m", "p", "l", "a", "t", "e", " ", "#">> \o s.name \o <<"=", "\"", "{", " ">> \o Join(s.scopeProps, <<",", " ">>)
         \o <<" ", "}", "\"", ">", "\n", " ", " ", " ", " ", " ", " ", "<", "!", "-", "-", " ">> \o s.name \o <<" ", "c", "o", "n", "t", "e", "n", "t", " ", "-", "-", ">", "\n", " ", " ", " ", " ", "<", "/", "t", "e", "m", "p", "l", "a", "t", "e", ">">>
  ELSE <<" ", " ", " ", " ", "<", "t", "e", "m", "p", "l", "a", "t", "e", " ", "#">> \o s.name \o <<">", "\n", " ", " ", " ", " ", " ", " ", "<", "!", "-", "-", " ">> \o s.name
         \o <<" ", "c", "o", "n", "t", "e", "n", "t", " ", "-", "-", ">", "\n", " ", " ", " ", " ", "<", "/", "t", "e", "m", "p", "l", "a", "t", "e", ">">>

\* slotLines
SlotLines(slotList) ==
  LET namedSlots == SelectSeq(slotList, IsNamedSlot)
      shown == Slice(namedSlots, 2)
      defaultLines ==
        IF SelectSeq(slotList, IsDefaultSlot) = <<>> THEN <<>>
        ELSE IF Len(namedSlots) > 0
        THEN << <<" ", " ", " ", " ", "<", "t", "e", "m", "p", "l", "a", "t", "e", " ", "#", "d", "e", "f", "a", "u", "l", "t", ">", "\n", " ", " ", " ", " ", " ", " ", "<", "!", "-", "-", " ", "D", "e", "f", "a", "u", "l", "t", " ", "s", "l", "o", "t", " ", "c", "o", "n", "t", "e", "n", "t", " ", "-", "-", ">", "\n", " ", " ", " ", " ", "<", "/", "t", "e", "m", "p", "l", "a", "t", "e", ">">> >>
        ELSE << <<" ", " ", " ", " ", "<", "!", "-", "-", " ", "D", "e", "f", "a", "u", "l", "t", " ", "s", "l", "o", "t", " ", "c", "o", "n", "t", "e", "n", "t", " ", "-", "-", ">">> >>
  IN defaultLines \o [i \in 1..Len(shown) |-> NamedSlotLine(shown[i])]

\* generateUsageExample
GenerateUsageExample(pascalName, propList, slotList) ==
  LET propsStr == PropsStr(propList)
      propsSection == IF propsStr # <<>> THEN <<" ">> \o propsStr ELSE <<>>
      slotLines == SlotLines(slotList)
      slotContent == IF Len(slotLines) > 0 THEN Join(slotLines, <<"\n">>)
                     ELSE <<" ", " ", " ", " ", "<", "!", "-", "-", " ", "C", "o", "n", "t", "e", "n", "t", " ", "-", "-", ">">>
  IN <<"<", "t", "e", "m", "p", "l", "a", "t", "e", ">", "\n", " ", " ", "<", "S", "p", "r">> \o pascalName \o propsSection \o <<">", "\n">> \o slotContent
       \o <<"\n", " ", " ", "<", "/", "S", "p", "r">> \o pascalName \o <<">", "\n", "<", "/", "t", "e", "m", "p", "l", "a", "t", "e", ">", "\n", "\n", "<", "s", "c", "r", "i", "p", "t", " ", "s", "e", "t", "u", "p", ">", "\n", "i", "m", "p", "o", "r", "t", " ", "{", " ", "S", "p", "r">>
       \o pascalName \o <<" ", "}", " ", "f", "r", "o", "m", " ", "'", "d", "e", "s", "i", "g", "n", "-", "s", "y", "s", "t", "e", "m", "-", "n", "e", "x", "t", "'", ";", "\n", "<", "/", "s", "c", "r", "i", "p", "t", ">">>

\* props and slots a component may declare
ExamplePropPool ==
  << ExampleProp(<<"l", "o", "a", "d", "i", "n", "g">>, <<"b", "o", "o", "l", "e", "a", "n">>, FALSE, FALSE, <<>>),
     ExampleProp(<<"d", "i", "s", "a", "b", "l", "e", "d">>, <<"b", "o", "o", "l", "e", "a", "n">>, TRUE, FALSE, <<>>),
     ExampleProp(<<"t", "o", "n", "e">>, <<"s", "t", "r", "i", "n", "g">>, TRUE, TRUE, << <<"s", "m">>, <<"m", "d">> >>),
     ExampleProp(<<"l", "a", "b", "e", "l">>, <<"s", "t", "r", "i", "n", "g">>, FALSE, FALSE, <<>>),
     ExampleProp(<<"c", "o", "u", "n", "t">>, <<"n", "u", "m", "b", "e", "r">>, FALSE, FALSE, <<>>),
     ExampleProp(<<"r", "o", "u", "n", "d", "e", "d">>, <<"b", "o", "o", "l", "e", "a", "n">>, FALSE, FALSE, <<>>) >>

ExampleSlotPool ==
  << ExampleSlot(<<"h", "e", "a", "d", "e", "r">>, TRUE, << <<"i", "t", "e", "m">>, <<"i", "n", "d", "e", "x">> >>),
     ExampleSlot(<<"d", "e", "f", "a", "u", "l", "t">>, FALSE, <<>>),
     ExampleSlot(<<"f", "o", "o", "t", "e", "r">>, FALSE, <<>>),
     ExampleSlot(<<"a", "c", "t", "i", "o", "n", "s">>, TRUE, <<>>) >>

RECURSIVE InPoolOrder(_, _)
InPoolOrder(pool, picks) ==
  IF picks = {} THEN <<>>
  ELSE <<pool[Min(picks)]>> \o InPoolOrder(pool, picks \ {Min(picks)})

\* the argument lists of the call to come
ExampleInputs ==
  { [props |-> InPoolOrder(ExamplePropPool, pp),
     slots |-> InPoolOrder(ExampleSlotPool, sp)] :
      pp \in {ps \in SUBSET (1..Len(ExamplePropPool)) :
                Cardinality(ps) <= MaxExampleProps},
      sp \in {ss \in SUBSET (1..Len(ExampleSlotPool)) :
                Cardinality(ss) <= MaxExampleSlots} }

InitUsage ==
  /\ fnCall \in {[fn |-> "pending", input |-> in] : in \in ExampleInputs}
  /\ fnResult = <<>>
  /\ SlotsIdle
  /\ PropsIdle
  /\ SubIdle
  /\ ManIdle
  /\ CacheIdle
  /\ ServerIdle
  /\ TokensIdle

GenerateUsageExampleCall ==
  /\ fnCall.fn = "pending"
  /\ fnCall' = [fnCall EXCEPT !.fn = "generateUsageExample"]
  /\ fnResult' = GenerateUsageExample(<<"B", "u", "t", "t", "o", "n">>, fnCall.input.props,
                                      fnCall.input.slots)
  /\ UNCHANGED notFnVars

NextUsage == GenerateUsageExampleCall

SpecUsage == InitUsage /\ [][NextUsage]_vars

\* the props of the call that pass the filter, and the named slots, by position
EligibleAt(propList) ==
  {i \in 1..Len(propList) : ~propList[i].hasDefault \/ propList[i].hasValues}

NamedAt(slotList) == {i \in 1..Len(slotList) : slotList[i].name # <<"d", "e", "f", "a", "u", "l", "t">>}

\* position i is among the first n positions of the set
AmongFirst(i, positions, n) ==
  i \in positions /\ Cardinality({j \in positions : j < i}) < n

\* C24: generateUsageExample writes an attribute only for props among the
\* first three that pass the filter (no default, or validValues), and a
\* <template #name> block only for the first two slots not named "default";
\* a fourth eligible prop or a third named slot never appears.
C24_ExampleLimits ==
  fnCall.fn = "generateUsageExample" =>
    /\ \A i \in 1..Len(fnCall.input.props) :
         Includes(fnResult, <<" ">> \o fnCall.input.props[i].name)
           => AmongFirst(i, EligibleAt(fnCall.input.props), 3)
    /\ \A i \in NamedAt(fnCall.input.slots) :
         Includes(fnResult, <<"<", "t", "e", "m", "p", "l", "a", "t", "e", " ", "#">> \o fnCall.input.slots[i].name)
           => AmongFirst(i, NamedAt(fnCall.input.slots), 2)

\* four eligible props and three named slots were passed
C24_Witness ==
  /\ fnCall.fn = "generateUsageExample"
  /\ Cardinality(EligibleAt(fnCall.input.props)) = 4
  /\ Cardinality(NamedAt(fnCall.input.slots)) = 3
  /\ Includes(fnResult, <<" ", "l", "o", "a", "d", "i", "n", "g", " ">>)


----------------------------------------------------------------------------
(* parseComposable (types.ts) as a function of a file's name and text      *)

ExportLit == <<"e", "x", "p", "o", "r", "t">>

FunctionLit == <<"f", "u", "n", "c", "t", "i", "o", "n">>

UseLit == <<"u", "s", "e">>

ReturnLit == <<"r", "e", "t", "u", "r", "n">>

ArrowLit == <<"=", ">">>

NoUse == [ok |-> FALSE, from |-> 0, to |-> 0]

\* export\s+KEYWORD\s+(use\w+) at i: the span of the captured name
ExportedUseAt(s, i, keyword) ==
  The({ The({ IF /\ StartsAt(s, i, ExportLit)
                 /\ k > i + Len(ExportLit)
                 /\ StartsAt(s, k, keyword)
                 /\ n > k + Len(keyword)
                 /\ StartsAt(s, n, UseLit)
                 /\ RunLen(s, n + Len(UseLit), WordChar) > 0
              THEN [ok |-> TRUE, from |-> n,
                    to |-> n + Len(UseLit) + RunLen(s, n + Len(UseLit), WordChar)]
              ELSE NoUse :
              n \in {k + Len(keyword) + RunLen(s, k + Len(keyword), Space)} }) :
        k \in {i + Len(ExportLit) + RunLen(s, i + Len(ExportLit), Space)} })

NoSignatureMatch == [ok |-> FALSE, at |-> -1, name |-> <<>>, params |-> <<>>]

\* \(([^)]*)\) at i: the group runs to the first ')' after the '('
ParamsAt(s, i) ==
  The({ IF HasAt(s, i) /\ At(s, i) = "(" /\ HasAt(s, i + 1 + n)
        THEN [ok |-> TRUE, text |-> Substring(s, i + 1, i + 1 + n), end |-> i + 2 + n]
        ELSE [ok |-> FALSE, text |-> <<>>, end |-> 0] :
        n \in {RunLenNot(s, i + 1, {")"})} })

\* [^=]*=>\s*\{ at i
ArrowBraceAt(s, i) ==
  The({ /\ StartsAt(s, arrow, ArrowLit)
        /\ HasAt(s, arrow + 2 + RunLen(s, arrow + 2, Space))
        /\ At(s, arrow + 2 + RunLen(s, arrow + 2, Space)) = "{" :
        arrow \in {i + RunLenNot(s, i, {"="})} })

\* /export\s+const\s+(use\w+)\s*=\s*\(([^)]*)\)[^=]*=>\s*\{/ at i
ArrowMatchAt(s, i) ==
  The({ IF ~u.ok THEN NoSignatureMatch
        ELSE The({ IF ~(HasAt(s, eq) /\ At(s, eq) = "=") THEN NoSignatureMatch
                   ELSE The({ IF p.ok /\ ArrowBraceAt(s, p.end)
                              THEN [ok |-> TRUE, at |-> i,
                                    name |-> Substring(s, u.from, u.to),
                                    params |-> p.text]
                              ELSE NoSignatureMatch :
                              p \in {ParamsAt(s, eq + 1 + RunLen(s, eq + 1, Space))} }) :
                   eq \in {u.to + RunLen(s, u.to, Space)} }) :
        u \in {ExportedUseAt(s, i, ConstLit)} })

\* /export\s+function\s+(use\w+)\s*\(([^)]*)\)/ at i
FuncMatchAt(s, i) ==
  The({ IF ~u.ok THEN NoSignatureMatch
        ELSE The({ IF p.ok
                   THEN [ok |-> TRUE, at |-> i, name |-> Substring(s, u.from, u.to),
                         params |-> p.text]
                   ELSE NoSignatureMatch :
                   p \in {ParamsAt(s, u.to + RunLen(s, u.to, Space))} }) :
        u \in {ExportedUseAt(s, i, FunctionLit)} })

\* content.match(regex): the leftmost of the matches
Leftmost(matches) ==
  IF matches = {} THEN NoSignatureMatch
  ELSE CHOOSE m \in matches : \A o \in matches : m.at <= o.at

ArrowMatch(s) ==
  Leftmost({m \in {ArrowMatchAt(s, i) : i \in 0..(Len(s) - 1)} : m.ok})

FuncMatch(s) ==
  Leftmost({m \in {FuncMatchAt(s, i) : i \in 0..(Len(s) - 1)} : m.ok})

\* arrowMatch || funcMatch
SignatureMatch(s) ==
  The({ IF arrowMatch.ok THEN arrowMatch ELSE FuncMatch(s) :
        arrowMatch \in {ArrowMatch(s)} })

\* .replace(/-([a-z])/g, (_, c) => c.toUpperCase())
RECURSIVE Camelize(_)
Camelize(t) ==
  IF t = <<>> THEN <<>>
  ELSE IF Len(t) >= 2 /\ t[1] = "-" /\ ToUpperChar(t[2]) # t[2]
       THEN <<ToUpperChar(t[2])>> \o Camelize(SubSeq(t, 3, Len(t)))
       ELSE <<t[1]>> \o Camelize(Tail(t))

\* fileName.replace('.ts', '').replace(/-([a-z])/g, ...)
NameFromFile(fileName) == Camelize(RemoveFirst(fileName, TsExt))

\* params.split(',')
RECURSIVE SplitOnCommas(_)
SplitOnCommas(t) ==
  LET c == IndexOf(t, <<",">>, 0)
  IN IF c = -1 THEN <<t>>
     ELSE <<Substring(t, 0, c)>> \o SplitOnCommas(SubSeq(t, c + 2, Len(t)))

\* .map(p => p.trim()).filter(p => p)
TrimmedParts(parts) ==
  SelectSeq([i \in 1..Len(parts) |-> Trim(parts[i])], LAMBDA p : p # <<>>)

\* the callback that rewrites one parameter as "name: type"
NameColonType(p) ==
  LET colonIdx == IndexOf(p, <<":">>, 0)
  IN IF colonIdx > -1
     THEN Trim(Substring(p, 0, colonIdx)) \o <<":", " ">>
            \o Trim(SubSeq(p, colonIdx + 2, Len(p)))
     ELSE p

Parenthesized(paramParts) ==
  IF Len(paramParts) > 0
  THEN <<"(">> \o Join([i \in 1..Len(paramParts) |-> NameColonType(paramParts[i])],
                       <<",", " ">>) \o <<")">>
  ELSE <<"(", ")">>

\* the signature built from the captured parameter text
SignatureOf(params) == Parenthesized(TrimmedParts(SplitOnCommas(Trim(params))))

NoBlock == [ok |-> FALSE, body |-> <<>>, end |-> 0]

\* /return\s*\{([^}]*(?:\{[^}]*\}[^}]*)*)\}/ at i: the greedy [^}]* runs to
\* the first '}', where the closing \} matches at once
ReturnBlockAt(s, i) ==
  LET open == i + Len(ReturnLit) + RunLen(s, i + Len(ReturnLit), Space)
      n == RunLenNot(s, open + 1, {"}"})
  IN IF /\ StartsAt(s, i, ReturnLit)
        /\ HasAt(s, open) /\ At(s, open) = "{"
        /\ HasAt(s, open + 1 + n)
     THEN [ok |-> TRUE, body |-> Substring(s, open + 1, open + 1 + n),
           end |-> open + 2 + n]
     ELSE NoBlock

\* [...content.matchAll(regex)]: the groups of the matches from `from` on
RECURSIVE ReturnBlocks(_, _)
ReturnBlocks(s, from) ==
  LET Hit(t, i) == ReturnBlockAt(t, i).ok
  IN The({ IF at = -1 THEN <<>>
           ELSE The({ <<m.body>> \o ReturnBlocks(s, m.end) :
                      m \in {ReturnBlockAt(s, at)} }) :
           at \in {FirstFrom(s, from, Hit)} })

MemberEnd == {":", ","}

NoMember == [ok |-> FALSE, word |-> <<>>, end |-> 0]

\* /(\w+)(?:\s*[:,]|\s*$)/ at i
MemberAt(t, i) ==
  LET w == RunLen(t, i, WordChar)
      after == i + w + RunLen(t, i + w, Space)
  IN IF w > 0 /\ HasAt(t, after) /\ At(t, after) \in MemberEnd
     THEN [ok |-> TRUE, word |-> Substring(t, i, i + w), end |-> after + 1]
     ELSE IF w > 0 /\ after = Len(t)
     THEN [ok |-> TRUE, word |-> Substring(t, i, i + w), end |-> after]
     ELSE NoMember

\* while ((memberMatch = memberRegex.exec(lastReturn)) !== null)
RECURSIVE MemberMatches(_, _)
MemberMatches(t, from) ==
  LET Hit(x, i) == MemberAt(x, i).ok
  IN The({ IF at = -1 THEN <<>>
           ELSE The({ <<m.word>> \o MemberMatches(t, m.end) :
                      m \in {MemberAt(t, at)} }) :
           at \in {FirstFrom(t, from, Hit)} })

\* ['return', 'const', 'let', 'var', 'if', 'else', 'value']
Skipped ==
  {<<"r", "e", "t", "u", "r", "n">>, <<"c", "o", "n", "s", "t">>, <<"l", "e", "t">>, <<"v", "a", "r">>, <<"i", "f">>, <<"e", "l", "s", "e">>, <<"v", "a", "l", "u", "e">>}

\* the first block instead of the last
FirstOf(blocks) == blocks[1]

\* returnBlocks[returnBlocks.length - 1][1]
LastOf(blocks) == blocks[Len(blocks)]

\* the members pushed for one block body
MembersOf(body) == SelectSeq(MemberMatches(body, 0), LAMBDA w : w \notin Skipped)

ReturnedMembers(text) ==
  LET returnBlocks == ReturnBlocks(text, 0)
  IN IF Len(returnBlocks) > 0 THEN MembersOf(LastOf(returnBlocks)) ELSE <<>>

ParseComposable(fileName, text) ==
  The({ [name |-> IF match.ok THEN match.name ELSE NameFromFile(fileName),
         fileName |-> fileName,
         signature |-> SignatureOf(IF match.ok THEN match.params ELSE <<>>),
         returnedMembers |-> ReturnedMembers(text)] :
        match \in {SignatureMatch(text)} })

ComposableFileName == <<"u", "s", "e", "-", "a", ".", "t", "s">>

\* the line that opens the composable
ComposableHeaders ==
  {<<"e", "x", "p", "o", "r", "t", " ", "f", "u", "n", "c", "t", "i", "o", "n", " ", "u", "s", "e", "A", "(", ")", " ", "{">>,
   <<"e", "x", "p", "o", "r", "t", " ", "f", "u", "n", "c", "t", "i", "o", "n", " ", "u", "s", "e", "A", "(", " ", "a", " ", ",", "b", " ", ":", "T", " ", ")", " ", "{">>,
   <<"e", "x", "p", "o", "r", "t", " ", "c", "o", "n", "s", "t", " ", "u", "s", "e", "A", " ", "=", " ", "(", "m", ":", " ", "M", "a", "p", "<", "K", ",", " ", "V", ">", ")", " ", "=", ">", " ", "{">>,
   <<"e", "x", "p", "o", "r", "t", " ", "c", "o", "n", "s", "t", " ", "u", "s", "e", "A", " ", "=", " ", "(", "m", ":", " ", "M", "a", "p", "<", "K", ",", "V", ">", ")", ":", " ", "R", " ", "=", ">", " ", "{">>,
   <<"e", "x", "p", "o", "r", "t", " ", "f", "u", "n", "c", "t", "i", "o", "n", " ", "u", "s", "e", "A", "(", "c", "b", ":", " ", "(", "e", ":", " ", "E", ")", " ", "=", ">", " ", "v", "o", "i", "d", ")", " ", "{">>,
   <<"c", "o", "n", "s", "t", " ", "u", "s", "e", "A", " ", "=", " ", "(", ")", " ", "=", ">", " ", "{">>}

\* the statements of its body
ComposableStatements ==
  {<<"i", "f", " ", "(", "!", "a", ")", " ", "r", "e", "t", "u", "r", "n", " ", "{", " ", "e", "r", "r", "o", "r", " ", "}">>,
   <<"r", "e", "t", "u", "r", "n", " ", "{", " ", "a", ",", " ", "b", ":", " ", "c", ",", " ", "a", " ", "}">>,
   <<"r", "e", "t", "u", "r", "n", " ", "{", " ", "v", "a", "l", "u", "e", ",", " ", "r", "e", "s", "e", "t", " ", "}">>,
   <<"r", "e", "t", "u", "r", "n", " ", "{", " ", "s", ":", " ", "{", " ", "x", " ", "}", ",", " ", "y", " ", "}">>,
   <<"c", "o", "n", "s", "t", " ", "f", " ", "=", " ", "(", ")", " ", "=", ">", " ", "1">>}

MaxStatements == 3

Lines(list) == Concat([i \in 1..Len(list) |-> <<"\n">> \o list[i]])

ComposableTexts ==
  {h \o Lines(body) \o <<"\n", "}">> :
     h \in ComposableHeaders, body \in SeqUpTo(ComposableStatements, MaxStatements)}

InitComposable ==
  /\ fnCall \in {[fn |-> "pending", input |-> t] : t \in ComposableTexts}
  /\ fnResult = <<>>
  /\ SlotsIdle
  /\ PropsIdle
  /\ SubIdle
  /\ ManIdle
  /\ CacheIdle
  /\ ServerIdle
  /\ TokensIdle

ParseComposableCall ==
  /\ fnCall.fn = "pending"
  /\ fnCall' = [fn |-> "parseComposable", input |-> fnCall.input]
  /\ fnResult' = ParseComposable(ComposableFileName, fnCall.input)
  /\ UNCHANGED notFnVars

NextComposable == ParseComposableCall

SpecComposable == InitComposable /\ [][NextComposable]_vars

----------------------------------------------------------------------------
(* Claims on parseComposable *)

ComposableParsed == fnCall.fn = "parseComposable"

\* where a `return { ... }` block starts in the text
ReturnStarts(text) == {i \in 0..(Len(text) - 1) : ReturnBlockAt(text, i).ok}

Max(S) == CHOOSE x \in S : \A y \in S : y <= x

\* the identifiers that occur in a text
WordRuns(t) ==
  {Substring(t, i, i + RunLen(t, i, WordChar)) :
     i \in {j \in 0..(Len(t) - 1) :
              At(t, j) \in WordChar /\ (j = 0 \/ At(t, j - 1) \notin WordChar)}}

Reported == {fnResult.returnedMembers[k] : k \in 1..Len(fnResult.returnedMembers)}

DepthAt(t, i) ==
  Cardinality({j \in 0..(i - 1) : At(t, j) \in Openers})
    - Cardinality({j \in 0..(i - 1) :
                     At(t, j) \in Closers /\ ~(j > 0 /\ At(t, j - 1) = "=")})

\* the parameter list of the declaration: from the first '(' to its partner
DeclaredParams(text) ==
  LET open == IndexOf(text, <<"(">>, 0)
      close == Min({j \in (open + 1)..(Len(text) - 1) :
                      At(text, j) = ")" /\ DepthAt(text, j) = DepthAt(text, open) + 1})
  IN Substring(text, open + 1, close)

\* the parts of a parameter list between its commas of depth 0
RECURSIVE SplitTopLevel(_, _)
SplitTopLevel(t, from) ==
  LET commas == {j \in from..(Len(t) - 1) : At(t, j) = "," /\ DepthAt(t, j) = 0}
  IN IF commas = {} THEN <<Substring(t, from, Len(t))>>
     ELSE <<Substring(t, from, Min(commas))>> \o SplitTopLevel(t, Min(commas) + 1)

\* C26: the signature is the parameter list split on its top-level commas
\* only, each parameter trimmed, joined with ", " inside parentheses; a
\* parameter whose type holds a comma or parentheses stays one parameter with
\* its full type; an empty list gives "()".
C26_SignatureSplitsTopLevelCommas ==
  (ComposableParsed /\ SignatureMatch(fnCall.input).ok) =>
    fnResult.signature
      = Parenthesized(TrimmedParts(SplitTopLevel(DeclaredParams(fnCall.input), 0)))

\* control-flow and declaration keywords
Keywords == {<<"r", "e", "t", "u", "r", "n">>, <<"c", "o", "n", "s", "t">>, <<"l", "e", "t">>, <<"v", "a", "r">>, <<"i", "f">>, <<"e", "l", "s", "e">>}

\* C27: returnedMembers is exactly the identifiers of the chosen block that a
\* comma, a colon or the end of the block follows, minus a denylist that holds
\* only control-flow/declaration keywords.
C27_MembersMinusKeywords ==
  (ComposableParsed /\ ReturnStarts(fnCall.input) # {}) =>
    fnResult.returnedMembers
      = SelectSeq(MemberMatches(LastOf(ReturnBlocks(fnCall.input, 0)), 0),
                  LAMBDA w : w \notin Keywords)

----------------------------------------------------------------------------
(* Claim on the two sources of validValues *)

HasValidatorField(e) ==
  \E i \in 1..Len(e.members) :
    e.members[i].name = ValidatorLit /\ e.members[i].kind = "PropertyAssignment"

ValidatorFieldText(e) ==
  (CHOOSE m \in {e.members[i] : i \in 1..Len(e.members)} :
     m.name = ValidatorLit).text

\* the captured constants C of which the validator text holds C.includes(
CheckedByValidator(e) ==
  {c \in DOMAIN constArrays :
     /\ HasValidatorField(e)
     /\ \E i \in 0..(Len(ValidatorFieldText(e)) - 1) :
          /\ StartsAt(ValidatorFieldText(e), i, c \o IncludesLit \o <<"(">>)
          /\ (i = 0 \/ At(ValidatorFieldText(e), i - 1) \notin WordChar)}

\* the captured constants the type text refers to with typeof
NamedByTypeof(e) ==
  {c \in DOMAIN constArrays :
     HasTypeField(e) /\ Includes(TypeFieldText(e), TypeofLit \o <<" ">> \o c)}

\* C28: a validator that holds C.includes(...) for a captured constant C
\* gives validValues = C's values, also when the type names another constant
\* with typeof, and by itself leaves the type as resolved from the type
\* field; when only the type names a constant, its values are reported.
C28_ValidatorValuesWin ==
  \A i \in 1..Len(props) :
    LET e == EntryOf(props[i])
    IN /\ \A c \in CheckedByValidator(e) :
            /\ props[i].hasValidValues
            /\ props[i].validValues = constArrays[c]
            /\ (NamedByTypeof(e) = {} => props[i].type = ResolveType(e.members))
       /\ (CheckedByValidator(e) = {} =>
             \A c \in NamedByTypeof(e) :
               props[i].hasValidValues /\ props[i].validValues = constArrays[c])

----------------------------------------------------------------------------
(* Termination of the linear slot extractor *)

\* an iteration of either loop that is followed by another one moves its
\* position forward
PositionsAdvance ==
  /\ (pc = "loop" /\ pc' = "loop") => pos' > pos
  /\ (pc = "scan" /\ pc' = "scan") => searchPos' > searchPos

\* the root <template> is opened and never closed
RootUnclosed == doc.hasTemplate /\ ~doc.closed

\* a bound on the steps still to run: the stages ahead, each counted for
\* more than a whole pass over the text, and what is left of the text in the
\* current loop
StepsLeft ==
  LET pass == Len(content) + 2
  IN IF pc = "ast" THEN 4 * pass
     ELSE IF pc = "extract" THEN 3 * pass
     ELSE IF pc = "loop" THEN 2 * pass + (Len(content) - pos)
     ELSE IF pc = "scan" THEN pass + (Len(template) + 1 - searchPos)
     ELSE 0

\* C29: the linear extractor terminates on every text: the position of
\* extractRootTemplate and the search position of parseSlots strictly
\* increase on every iteration, every step lowers a bound on the steps left
\* that is never negative, and for a root <template> without its closer
\* extractRootTemplate gives '' and parseSlots gives [].
C29_ExtractorTerminates ==
  /\ [][PositionsAdvance /\ StepsLeft' < StepsLeft]_vars
  /\ [](StepsLeft >= 0)
  /\ []((pc = "done" /\ RootUnclosed) => (template = <<>> /\ slots = <<>>))

\* an unclosed root around a closed inner <template>: the loop has passed
\* the inner pair and returned
C29_Witness ==
  /\ pc = "done"
  /\ RootUnclosed
  /\ doc.nest >= 1
  /\ Len(doc.items) = 1
  /\ depth = 1
  /\ pos > openIdx + openLen
  /\ template = <<>>
  /\ slots = <<>>

----------------------------------------------------------------------------
(* buildManifest: the details of the sub-entities of one component          *)
(* directory (generate-manifest.ts, resolveSubComponentPath of utils.ts)    *)

\* null
NoPath == <<>>

\* looks into every subdirectory that holds the file
ResolveWhereFound(dir, subName, ext) ==
  LET holders == {i \in 1..Len(dir.entries) :
                    /\ dir.entries[i].isDirectory
                    /\ ExistsIn(dir.entries[i].inner, subName \o ext)}
  IN IF holders = {} THEN NoPath
     ELSE <<dir.entries[Min(holders)].name, subName \o ext>>

\* resolveSubComponentPath: <dir>/<sub>/<sub><ext>, then <dir>/<sub><ext>,
\* as the names below the component directory
ResolveSubComponentPath(dir, subName, ext) ==
  IF \E i \in 1..Len(dir.entries) :
       /\ dir.entries[i].isDirectory
       /\ dir.entries[i].name = subName
       /\ ExistsIn(dir.entries[i].inner, subName \o ext)
  THEN <<subName, subName \o ext>>
  ELSE IF ExistsIn(EntryNames(dir.entries), subName \o ext)
  THEN <<subName \o ext>>
  ELSE NoPath

\* the callback of subs.map: every file read gives a non-empty list
SubComponentManifest(dir, sub) ==
  LET subTsPath == IF sub.hasProps
                   THEN ResolveSubComponentPath(dir, sub.name, TsExt)
                   ELSE NoPath
      subVuePath == ResolveSubComponentPath(dir, sub.name, VueExt)
  IN [name |-> sub.name,
      pascalName |-> sub.pascalName,
      props |-> IF subTsPath # NoPath THEN Parsed("props", subTsPath) ELSE <<>>,
      emits |-> IF subTsPath # NoPath THEN Parsed("emits", subTsPath) ELSE <<>>,
      slots |-> IF subVuePath # NoPath THEN Parsed("slots", subVuePath) ELSE <<>>]

\* const subComponentDetails = subs.map(...), held in fnResult
MapSubs ==
  /\ subPc = "done"
  /\ subPc' = "mapped"
  /\ fnResult' = [k \in 1..Len(subs) |-> SubComponentManifest(componentDir, subs[k])]
  /\ UNCHANGED <<componentDir, entryIdx, subs, fnCall>>
  /\ UNCHANGED <<slotVars, propVars, manVars, cacheVars, serverVars, tokenVars>>

NextSubManifest ==
  \/ SubMissing
  \/ SubList
  \/ SubNested
  \/ SubForeign
  \/ SubOtherDir
  \/ SubFlat
  \/ SubOwnFile
  \/ SubOtherFile
  \/ SubReturn
  \/ MapSubs

SpecSubManifest == InitSub /\ [][NextSubManifest]_vars

SubsMapped == subPc = "mapped"

\* a file lies at <component>/<name>/<name><ext> or <component>/<name><ext>
AtResolvedPlace(n, ext) ==
  \/ \E e \in Entries : e.name = n \o ext
  \/ \E e \in Entries : e.isDirectory /\ e.name = n /\ (n \o ext) \in Names(e.inner)

\* C30: a sub-entity of the second layout (v.vue inside a subdirectory x
\* without x.ts / x.vue) is looked up at <component>/<name>/<name>.<ext> and
\* <component>/<name>.<ext> only, never inside x: without a file at those
\* places its entry has props = [], emits = [] and slots = [].
C30_SecondLayoutFilesNotFound ==
  SubsMapped =>
    \A x \in Entries : (x.isDirectory /\ ~OwnsFile(x)) =>
      \A v \in Names(x.inner) : EndsInVue(v) =>
        \A k \in SubsNamed(Stem(v)) :
          /\ fnResult[k].slots # Parsed("slots", <<x.name, v>>)
          /\ fnResult[k].props # Parsed("props", <<x.name, Stem(v) \o TsExt>>)
          /\ ~AtResolvedPlace(Stem(v), VueExt) => fnResult[k].slots = <<>>
          /\ ~AtResolvedPlace(Stem(v), TsExt) =>
               fnResult[k].props = <<>> /\ fnResult[k].emits = <<>>

\* tabs/ holds MonthTab.ts and MonthTab.vue and nothing named MonthTab lies
\* elsewhere: the entry of MonthTab is empty
C30_Witness ==
  /\ SubsMapped
  /\ \E x \in Entries :
       /\ x.name = <<"t", "a", "b", "s">>
       /\ <<"M", "o", "n", "t", "h", "T", "a", "b", ".", "v", "u", "e">> \in Names(x.inner)
       /\ <<"M", "o", "n", "t", "h", "T", "a", "b", ".", "t", "s">> \in Names(x.inner)
  /\ \E k \in SubsNamed(<<"M", "o", "n", "t", "h", "T", "a", "b">>) :
       /\ fnResult[k].props = <<>>
       /\ fnResult[k].emits = <<>>
       /\ fnResult[k].slots = <<>>
====
